---- MODULE Spec2Model ----
(***************************************************************************)
(* MTCv3: an AES-inspired substitution-permutation block cipher run in CBC *)
(* mode with PKCS#7 padding and a PBKDF2 key schedule.                     *)
(*                                                                         *)
(* Buffers and arrays are sequences; At(s, i) reads the 0-based index i as *)
(* the source does.  Strings are sequences of UTF-16 code units, hex       *)
(* strings are sequences of one-character strings.                         *)
(***************************************************************************)
EXTENDS Integers, Sequences, FiniteSets, TLC

(***************************************************************************)
(* JavaScript values and 32-bit integer operators on small operands        *)
(***************************************************************************)
\* undefined, the value a read past the end of an array or Buffer yields; bytes
\* and indices are never negative
Undefined == -1

\* ToInt32 of a JavaScript value that is a byte or undefined
ToInt(v) == IF v = Undefined THEN 0 ELSE v

\* s[i] for a 0-based index i
At(s, i) == IF i >= 0 /\ i < Len(s) THEN s[i + 1] ELSE Undefined

\* a sequence with every element evaluated; equal to s
Eval(s) == s \o << >>

RECURSIVE BitXorRec(_, _)
\* a ^ b on non-negative integers, bit by bit
BitXorRec(a, b) ==
  IF a = 0 THEN b
  ELSE IF b = 0 THEN a
  ELSE ((a + b) % 2) + 2 * BitXorRec(a \div 2, b \div 2)

\* a ^ b for all pairs of bytes, computed once
XorBytes == Eval([a \in 1..256 |-> Eval([b \in 1..256 |-> BitXorRec(a - 1, b - 1)])])

\* a ^ b on non-negative integers
BitXor(a, b) == IF a < 256 /\ b < 256 THEN XorBytes[a + 1][b + 1] ELSE BitXorRec(a, b)

RECURSIVE BitAnd(_, _)
\* a & b on non-negative integers
BitAnd(a, b) ==
  IF a = 0 \/ b = 0 THEN 0
  ELSE ((a % 2) * (b % 2)) + 2 * BitAnd(a \div 2, b \div 2)

RECURSIVE BitOr(_, _)
\* a | b on non-negative integers
BitOr(a, b) ==
  IF a = 0 THEN b
  ELSE IF b = 0 THEN a
  ELSE (IF a % 2 = 1 \/ b % 2 = 1 THEN 1 ELSE 0) + 2 * BitOr(a \div 2, b \div 2)

RECURSIVE Pow2(_)
Pow2(n) == IF n = 0 THEN 1 ELSE 2 * Pow2(n - 1)

\* a << n and a >> n on non-negative integers below 2^24
Shl(a, n) == a * Pow2(n)
Shr(a, n) == a \div Pow2(n)

\* a ^ b where either operand may be undefined
Xor(a, b) == BitXor(ToInt(a), ToInt(b))

\* the sequence 0, 1, ..., n-1
Iota(n) == [i \in 1..n |-> i - 1]

\* Array.prototype.slice / Buffer.prototype.slice with JavaScript's index rules
RelIndex(n, k) == IF k < 0 THEN (IF n + k < 0 THEN 0 ELSE n + k) ELSE (IF k > n THEN n ELSE k)
Slice(s, from, to) ==
  LET a == RelIndex(Len(s), from)
      b == RelIndex(Len(s), to)
  IN  IF b > a THEN [i \in 1..(b - a) |-> s[a + i]] ELSE << >>
SliceFrom(s, from) == Slice(s, from, Len(s))

\* Array.prototype.flat on an array of rows
RECURSIVE Flat(_)
Flat(m) == IF m = << >> THEN << >> ELSE Head(m) \o Flat(Tail(m))


(***************************************************************************)
(* Node's crypto primitives, as tables of their real outputs               *)
(***************************************************************************)
\* crypto.pbkdf2Sync(password, salt, 100000, 16, 'sha256') for the passwords and
\* salts used here; a shorter keyLength returns a prefix of the same bytes
PBKDF2_SHA256 ==
  << << "strongpassword", "somesalt",
        << 49, 175, 227, 29, 147, 233, 106, 131, 178, 207, 204, 133, 106, 107, 15, 111 >> >>,
     << "differentpassword", "somesalt",
        << 22, 100, 46, 35, 211, 252, 98, 83, 231, 131, 230, 192, 148, 252, 145, 115 >> >>,
     << "strongpassword", "differentsalt",
        << 160, 241, 212, 18, 24, 212, 215, 101, 229, 111, 2, 182, 24, 5, 163, 227 >> >> >>

\* SHA-256 digests of the inputs generateColumnPermutation hashes: a sub-key
\* followed by the round byte
SHA256_DIGESTS ==
  << << << 49, 175, 227, 29, 0 >>,
        << 225, 96, 187, 47, 201, 241, 245, 193, 158, 79, 96, 134, 117, 50, 19, 44, 203, 55, 242, 185, 212, 81, 106, 146, 90, 194, 59, 179, 132, 209, 231, 119 >> >>,
     << << 147, 233, 106, 131, 1 >>,
        << 223, 91, 41, 254, 36, 4, 178, 96, 188, 102, 108, 143, 89, 201, 72, 207, 165, 23, 187, 165, 58, 90, 187, 109, 167, 119, 123, 123, 224, 4, 160, 158 >> >>,
     << << 178, 207, 204, 133, 2 >>,
        << 60, 127, 228, 59, 97, 117, 10, 50, 100, 245, 95, 138, 134, 60, 111, 250, 168, 115, 170, 68, 95, 145, 75, 146, 183, 72, 86, 64, 239, 145, 30, 116 >> >>,
     << << 106, 107, 15, 111, 3 >>,
        << 230, 187, 94, 59, 83, 19, 253, 61, 214, 239, 120, 228, 63, 103, 98, 236, 177, 240, 245, 242, 27, 52, 123, 124, 174, 22, 189, 66, 64, 152, 107, 116 >> >>,
     << << 22, 100, 46, 35, 0 >>,
        << 83, 26, 57, 188, 200, 139, 62, 57, 45, 148, 63, 112, 119, 28, 135, 120, 83, 171, 72, 109, 98, 229, 221, 97, 102, 179, 201, 36, 191, 87, 52, 11 >> >>,
     << << 211, 252, 98, 83, 1 >>,
        << 47, 93, 216, 36, 122, 72, 156, 18, 91, 151, 68, 251, 94, 189, 233, 129, 227, 211, 22, 125, 99, 212, 65, 199, 17, 4, 152, 201, 46, 39, 101, 80 >> >>,
     << << 231, 131, 230, 192, 2 >>,
        << 197, 214, 234, 126, 232, 209, 199, 174, 184, 49, 89, 111, 247, 55, 75, 168, 170, 102, 207, 34, 0, 8, 210, 172, 64, 180, 15, 122, 141, 125, 46, 191 >> >>,
     << << 148, 252, 145, 115, 3 >>,
        << 237, 92, 16, 109, 215, 65, 217, 85, 104, 13, 44, 27, 144, 29, 180, 144, 148, 97, 49, 200, 123, 225, 98, 94, 197, 48, 251, 102, 64, 97, 147, 219 >> >>,
     << << 160, 241, 212, 18, 0 >>,
        << 157, 153, 23, 155, 136, 221, 219, 121, 211, 105, 230, 198, 169, 168, 71, 136, 148, 201, 69, 165, 156, 9, 191, 123, 156, 215, 69, 82, 210, 9, 169, 43 >> >>,
     << << 24, 212, 215, 101, 1 >>,
        << 250, 111, 109, 6, 157, 223, 66, 23, 135, 147, 254, 91, 126, 164, 181, 4, 168, 175, 249, 129, 57, 13, 52, 78, 86, 89, 33, 178, 213, 69, 221, 201 >> >>,
     << << 229, 111, 2, 182, 2 >>,
        << 60, 174, 80, 167, 97, 43, 116, 213, 156, 97, 44, 254, 142, 114, 170, 17, 30, 204, 42, 126, 177, 166, 198, 83, 125, 209, 168, 8, 7, 190, 34, 245 >> >>,
     << << 24, 5, 163, 227, 3 >>,
        << 124, 220, 7, 125, 34, 50, 197, 128, 45, 125, 99, 129, 246, 130, 224, 160, 68, 228, 117, 34, 202, 11, 116, 17, 2, 252, 244, 183, 120, 254, 93, 155 >> >>,
     << << 49, 0 >>,
        << 231, 158, 65, 142, 72, 98, 53, 105, 215, 94, 42, 123, 9, 174, 136, 237, 155, 119, 177, 38, 164, 69, 185, 255, 157, 198, 152, 154, 8, 239, 160, 121 >> >>,
     << << 175, 1 >>,
        << 56, 53, 209, 203, 78, 6, 111, 159, 250, 232, 241, 7, 170, 13, 254, 173, 93, 228, 110, 172, 43, 78, 243, 133, 225, 192, 124, 82, 119, 171, 133, 49 >> >>,
     << << 227, 2 >>,
        << 241, 150, 233, 214, 168, 58, 51, 12, 135, 233, 190, 231, 162, 7, 51, 55, 30, 125, 210, 228, 123, 184, 162, 140, 56, 58, 130, 20, 80, 57, 111, 205 >> >>,
     << << 49, 175, 0 >>,
        << 132, 114, 153, 194, 77, 71, 165, 186, 154, 148, 135, 223, 130, 34, 77, 99, 98, 236, 133, 160, 195, 242, 22, 228, 55, 147, 107, 214, 96, 63, 8, 42 >> >>,
     << << 227, 29, 1 >>,
        << 73, 195, 93, 202, 31, 44, 45, 65, 18, 174, 113, 127, 231, 55, 132, 217, 18, 22, 210, 26, 43, 8, 224, 175, 3, 147, 12, 138, 34, 73, 121, 142 >> >>,
     << << 147, 233, 2 >>,
        << 255, 223, 131, 140, 237, 144, 60, 43, 241, 217, 215, 94, 99, 208, 94, 76, 137, 155, 215, 107, 70, 86, 45, 20, 241, 154, 45, 98, 19, 74, 233, 221 >> >>,
     << << 49, 175, 227, 0 >>,
        << 41, 128, 220, 50, 17, 101, 211, 92, 157, 13, 189, 157, 144, 164, 205, 106, 124, 17, 240, 65, 221, 149, 22, 30, 199, 66, 235, 31, 228, 192, 214, 109 >> >>,
     << << 29, 147, 233, 1 >>,
        << 60, 110, 84, 150, 100, 49, 228, 109, 86, 249, 116, 84, 175, 38, 30, 51, 24, 235, 182, 228, 221, 238, 243, 190, 243, 253, 11, 172, 179, 244, 40, 40 >> >>,
     << << 106, 131, 178, 2 >>,
        << 89, 169, 134, 207, 244, 157, 150, 247, 26, 15, 232, 123, 130, 41, 6, 73, 208, 203, 57, 76, 62, 116, 181, 136, 173, 94, 32, 43, 244, 229, 157, 220 >> >>,
     << << 49, 175, 227, 29, 147, 0 >>,
        << 201, 129, 128, 39, 203, 74, 170, 237, 227, 195, 248, 22, 89, 103, 184, 14, 157, 16, 182, 2, 125, 97, 10, 127, 133, 181, 212, 192, 53, 132, 95, 213 >> >>,
     << << 233, 106, 131, 178, 207, 1 >>,
        << 197, 233, 44, 83, 194, 255, 148, 155, 119, 13, 123, 247, 109, 77, 63, 62, 105, 92, 173, 200, 112, 97, 80, 85, 95, 24, 191, 150, 85, 34, 202, 180 >> >>,
     << << 204, 133, 106, 107, 15, 2 >>,
        << 177, 62, 90, 238, 132, 49, 89, 204, 109, 202, 161, 153, 35, 243, 214, 85, 70, 146, 166, 57, 130, 85, 208, 6, 122, 48, 251, 201, 23, 74, 200, 123 >> >> >>


deriveKey(password, salt, iterations, keyLength) ==
  LET e == CHOOSE e \in 1..Len(PBKDF2_SHA256) :
             PBKDF2_SHA256[e][1] = password /\ PBKDF2_SHA256[e][2] = salt
  IN  Slice(PBKDF2_SHA256[e][3], 0, keyLength)

sha256(bytes) ==
  LET e == CHOOSE e \in 1..Len(SHA256_DIGESTS) : SHA256_DIGESTS[e][1] = bytes
  IN  SHA256_DIGESTS[e][2]
(***************************************************************************)
(* Substitution tables (constants/encryptionConstants)                     *)
(***************************************************************************)
AES_S_BOX ==
  <<
     99, 124, 119, 123, 242, 107, 111, 197,  48,   1, 103,  43, 254, 215, 171, 118,
    202, 130, 201, 125, 250,  89,  71, 240, 173, 212, 162, 175, 156, 164, 114, 192,
    183, 253, 147,  38,  54,  63, 247, 204,  52, 165, 229, 241, 113, 216,  49,  21,
      4, 199,  35, 195,  24, 150,   5, 154,   7,  18, 128, 226, 235,  39, 178, 117,
      9, 131,  44,  26,  27, 110,  90, 160,  82,  59, 214, 179,  41, 227,  47, 132,
     83, 209,   0, 237,  32, 252, 177,  91, 106, 203, 190,  57,  74,  76,  88, 207,
    208, 239, 170, 251,  67,  77,  51, 133,  69, 249,   2, 127,  80,  60, 159, 168,
     81, 163,  64, 143, 146, 157,  56, 245, 188, 182, 218,  33,  16, 255, 243, 210,
    205,  12,  19, 236,  95, 151,  68,  23, 196, 167, 126,  61, 100,  93,  25, 115,
     96, 129,  79, 220,  34,  42, 144, 136,  70, 238, 184,  20, 222,  94,  11, 219,
    224,  50,  58,  10,  73,   6,  36,  92, 194, 211, 172,  98, 145, 149, 228, 121,
    231, 200,  55, 109, 141, 213,  78, 169, 108,  86, 244, 234, 101, 122, 174,   8,
    186, 120,  37,  46,  28, 166, 180, 198, 232, 221, 116,  31,  75, 189, 139, 138,
    112,  62, 181, 102,  72,   3, 246,  14,  97,  53,  87, 185, 134, 193,  29, 158,
    225, 248, 152,  17, 105, 217, 142, 148, 155,  30, 135, 233, 206,  85,  40, 223,
    140, 161, 137,  13, 191, 230,  66, 104,  65, 153,  45,  15, 176,  84, 187,  22 >>

AES_INV_S_BOX ==
  <<
     82,   9, 106, 213,  48,  54, 165,  56, 191,  64, 163, 158, 129, 243, 215, 251,
    124, 227,  57, 130, 155,  47, 255, 135,  52, 142,  67,  68, 196, 222, 233, 203,
     84, 123, 148,  50, 166, 194,  35,  61, 238,  76, 149,  11,  66, 250, 195,  78,
      8,  46, 161, 102,  40, 217,  36, 178, 118,  91, 162,  73, 109, 139, 209,  37,
    114, 248, 246, 100, 134, 104, 152,  22, 212, 164,  92, 204,  93, 101, 182, 146,
    108, 112,  72,  80, 253, 237, 185, 218,  94,  21,  70,  87, 167, 141, 157, 132,
    144, 216, 171,   0, 140, 188, 211,  10, 247, 228,  88,   5, 184, 179,  69,   6,
    208,  44,  30, 143, 202,  63,  15,   2, 193, 175, 189,   3,   1,  19, 138, 107,
     58, 145,  17,  65,  79, 103, 220, 234, 151, 242, 207, 206, 240, 180, 230, 115,
    150, 172, 116,  34, 231, 173,  53, 133, 226, 249,  55, 232,  28, 117, 223, 110,
     71, 241,  26, 113,  29,  41, 197, 137, 111, 183,  98,  14, 170,  24, 190,  27,
    252,  86,  62,  75, 198, 210, 121,  32, 154, 219, 192, 254, 120, 205,  90, 244,
     31, 221, 168,  51, 136,   7, 199,  49, 177,  18,  16,  89,  39, 128, 236,  95,
     96,  81, 127, 169,  25, 181,  74,  13,  45, 229, 122, 159, 147, 201, 156, 239,
    160, 224,  59,  77, 174,  42, 245, 176, 200, 235, 187,  60, 131,  83, 153,  97,
     23,  43,   4, 126, 186, 119, 214,  38, 225, 105,  20,  99,  85,  33,  12, 125 >>

(***************************************************************************)
(* helpers/encryptionUtils, GF(2^8) variant                                *)
(***************************************************************************)
substituteBytes(data, sBox) == Eval([i \in 1..Len(data) |-> At(sBox, data[i])])

inverseSubstituteBytes(data, invSBox) == Eval([i \in 1..Len(data) |-> At(invSBox, data[i])])

\* shiftRows moving the entries of a row the other way
shiftRowsOtherWay(matrix, shiftAmounts) ==
  [i \in 1..Len(matrix) |->
    LET row == matrix[i]
        shift == At(shiftAmounts, i - 1) % Len(row)
    IN  SliceFrom(row, shift) \o Slice(row, 0, shift)]

shiftRows(matrix, shiftAmounts) ==
  [i \in 1..Len(matrix) |->
    LET row == matrix[i]
        shift == At(shiftAmounts, i - 1) % Len(row)
    IN  SliceFrom(row, -shift) \o Slice(row, 0, -shift)]

\* inverseShiftRows without the reduction of the shift amount
inverseShiftRowsUnreduced(matrix, shiftAmounts) ==
  [i \in 1..Len(matrix) |->
    LET row == matrix[i]
        shift == At(shiftAmounts, i - 1)
    IN  SliceFrom(row, shift) \o Slice(row, 0, shift)]

inverseShiftRows(matrix, shiftAmounts) ==
  [i \in 1..Len(matrix) |->
    LET row == matrix[i]
        shift == At(shiftAmounts, i - 1) % Len(row)
    IN  SliceFrom(row, shift) \o Slice(row, 0, shift)]

permuteColumns(matrix, permutation) ==
  Eval([i \in 1..Len(matrix) |->
    LET row == matrix[i] IN Eval([j \in 1..Len(permutation) |-> At(row, permutation[j])])])

RECURSIVE gfMulLoopSeven(_, _, _, _)
\* the loop of gfMul stopping after seven iterations
gfMulLoopSeven(a, b, p, counter) ==
  IF counter >= 7 THEN p
  ELSE LET p1 == IF BitAnd(b, 1) # 0 THEN BitXor(p, a) ELSE p
           hiBitSet == BitAnd(a, 128)
           a1 == BitAnd(Shl(a, 1), 255)
           a2 == IF hiBitSet # 0 THEN BitXor(a1, 27) ELSE a1
       IN  gfMulLoopSeven(a2, Shr(b, 1), p1, counter + 1)

RECURSIVE gfMulLoop(_, _, _, _)
gfMulLoop(a, b, p, counter) ==
  IF counter >= 8 THEN p
  ELSE LET p1 == IF BitAnd(b, 1) # 0 THEN BitXor(p, a) ELSE p
           hiBitSet == BitAnd(a, 128)
           a1 == BitAnd(Shl(a, 1), 255)
           a2 == IF hiBitSet # 0 THEN BitXor(a1, 27) ELSE a1
       IN  gfMulLoop(a2, Shr(b, 1), p1, counter + 1)

\* the largest multiplier mixMatrix and inverseMixMatrix pass to gfMul
MaxMultiplier == 14

\* gfMul(a, b) for every byte a and every multiplier b up to MaxMultiplier,
\* computed once
GfProducts ==
  Eval([b \in 1..MaxMultiplier |-> Eval([a \in 1..256 |-> gfMulLoop(a - 1, b, 0, 0)])])

gfMul(a, b) ==
  IF b >= 1 /\ b <= MaxMultiplier /\ ToInt(a) < 256
  THEN GfProducts[b][ToInt(a) + 1]
  ELSE gfMulLoop(ToInt(a), b, 0, 0)

\* column c (0-based) of a matrix: matrix.map((row) => row[c])
Column(matrix, c) == Eval([k \in 1..Len(matrix) |-> At(matrix[k], c)])

\* the four rows mixMatrix writes for one column a
mixColumn(a) ==
  << BitXor(BitXor(BitXor(gfMul(At(a, 0), 2), gfMul(At(a, 1), 3)), ToInt(At(a, 2))), ToInt(At(a, 3))),
     BitXor(BitXor(BitXor(ToInt(At(a, 0)), gfMul(At(a, 1), 2)), gfMul(At(a, 2), 3)), ToInt(At(a, 3))),
     BitXor(BitXor(BitXor(ToInt(At(a, 0)), ToInt(At(a, 1))), gfMul(At(a, 2), 2)), gfMul(At(a, 3), 3)),
     BitXor(BitXor(BitXor(gfMul(At(a, 0), 3), ToInt(At(a, 1))), ToInt(At(a, 2))), gfMul(At(a, 3), 2)) >>

\* mixMatrix and inverseMixMatrix assign result[0..3][c]: with fewer than four
\* rows the assignment to a missing row throws a TypeError
mixThrows(matrix) == Len(matrix) >= 1 /\ Len(matrix) < 4

\* rows 0..3 are assigned for every column; rows 4.. keep the fill value 0
mixMatrix(matrix) ==
  LET N == Len(matrix)
      cols == Eval([c \in 1..N |-> mixColumn(Column(matrix, c - 1))])
  IN  Eval([i \in 1..N |-> Eval([c \in 1..N |-> IF i <= 4 THEN cols[c][i] ELSE 0])])

\* inverseMixColumn with the coefficients 9 and 13 of the first row exchanged
inverseMixColumnExchanged(a) ==
  << BitXor(BitXor(BitXor(gfMul(At(a, 0), 14), gfMul(At(a, 1), 11)), gfMul(At(a, 2), 9)), gfMul(At(a, 3), 13)),
     BitXor(BitXor(BitXor(gfMul(At(a, 0), 9), gfMul(At(a, 1), 14)), gfMul(At(a, 2), 11)), gfMul(At(a, 3), 13)),
     BitXor(BitXor(BitXor(gfMul(At(a, 0), 13), gfMul(At(a, 1), 9)), gfMul(At(a, 2), 14)), gfMul(At(a, 3), 11)),
     BitXor(BitXor(BitXor(gfMul(At(a, 0), 11), gfMul(At(a, 1), 13)), gfMul(At(a, 2), 9)), gfMul(At(a, 3), 14)) >>

inverseMixColumn(a) ==
  << BitXor(BitXor(BitXor(gfMul(At(a, 0), 14), gfMul(At(a, 1), 11)), gfMul(At(a, 2), 13)), gfMul(At(a, 3), 9)),
     BitXor(BitXor(BitXor(gfMul(At(a, 0), 9), gfMul(At(a, 1), 14)), gfMul(At(a, 2), 11)), gfMul(At(a, 3), 13)),
     BitXor(BitXor(BitXor(gfMul(At(a, 0), 13), gfMul(At(a, 1), 9)), gfMul(At(a, 2), 14)), gfMul(At(a, 3), 11)),
     BitXor(BitXor(BitXor(gfMul(At(a, 0), 11), gfMul(At(a, 1), 13)), gfMul(At(a, 2), 9)), gfMul(At(a, 3), 14)) >>

inverseMixMatrix(matrix) ==
  LET N == Len(matrix)
      cols == Eval([c \in 1..N |-> inverseMixColumn(Column(matrix, c - 1))])
  IN  Eval([i \in 1..N |-> Eval([c \in 1..N |-> IF i <= 4 THEN cols[c][i] ELSE 0])])

\* ((byte << shift) | (byte >> (8 - shift))) & 0xff
rotateLeft(byte, shift) == BitAnd(BitOr(Shl(byte, shift), Shr(byte, 8 - shift)), 255)

\* a shift to the right that drops the low bits instead of rotating them
rotateRightDropping(byte, shift) == BitAnd(Shr(byte, shift), 255)

\* ((byte >> shift) | (byte << (8 - shift))) & 0xff
rotateRight(byte, shift) == BitAnd(BitOr(Shr(byte, shift), Shl(byte, 8 - shift)), 255)

\* both rotations for every shift 0..7 and every byte, computed once
RotatedLeft ==
  Eval([s \in 1..8 |-> Eval([b \in 1..256 |-> rotateLeft(b - 1, s - 1)])])
RotatedRight ==
  Eval([s \in 1..8 |-> Eval([b \in 1..256 |-> rotateRight(b - 1, s - 1)])])

permuteBits(data, key, round) ==
  LET shift == At(key, round % Len(key)) % 8
  IN  Eval([i \in 1..Len(data) |-> RotatedLeft[shift + 1][data[i] + 1]])

inversePermuteBits(data, key, round) ==
  LET shift == At(key, round % Len(key)) % 8
  IN  Eval([i \in 1..Len(data) |-> RotatedRight[shift + 1][data[i] + 1]])

\* crypto.createHash('sha256').update(key).update(Buffer.from([round])).digest()
roundHash(key, round) == sha256(key \o << round % 256 >>)

RECURSIVE shuffleLoopOverwriting(_, _, _)
\* the loop copying permutation[j] to position i without the exchange
shuffleLoopOverwriting(permutation, hash, i) ==
  IF i <= 0 THEN permutation
  ELSE LET j == At(hash, i % Len(hash)) % (i + 1)
           copied == [permutation EXCEPT ![i + 1] = permutation[j + 1]]
       IN  shuffleLoopOverwriting(copied, hash, i - 1)

RECURSIVE shuffleLoop(_, _, _)
\* the Fisher-Yates loop of generateColumnPermutation, from index i down to 1
shuffleLoop(permutation, hash, i) ==
  IF i <= 0 THEN permutation
  ELSE LET j == At(hash, i % Len(hash)) % (i + 1)
           swapped == [permutation EXCEPT ![i + 1] = permutation[j + 1],
                                          ![j + 1] = permutation[i + 1]]
       IN  shuffleLoop(swapped, hash, i - 1)

generateColumnPermutation(key, round, N) ==
  shuffleLoop(Iota(N), roundHash(key, round), N - 1)

\* the permutation returned as its own inverse
generateInverseColumnPermutationSame(permutation) == permutation

\* inverse[p] = i for every entry p at index i
generateInverseColumnPermutation(permutation) ==
  [p \in 1..Len(permutation) |->
    IF \E i \in 1..Len(permutation) : permutation[i] = p - 1
    THEN (CHOOSE i \in 1..Len(permutation) :
            /\ permutation[i] = p - 1
            /\ \A k \in (i + 1)..Len(permutation) : permutation[k] # p - 1) - 1
    ELSE Undefined]

\* Buffer.alloc(size, fill): the fill value is stored as an 8-bit value
BufferAlloc(size, fill) == [i \in 1..size |-> fill % 256]

\* pad adding nothing to data that is already aligned
padOnlyUnaligned(data, blockSize) ==
  LET padding == (blockSize - (Len(data) % blockSize)) % blockSize
      paddingBuffer == BufferAlloc(padding, padding)
  IN  data \o paddingBuffer

pad(data, blockSize) ==
  LET padding == blockSize - (Len(data) % blockSize)
      paddingBuffer == BufferAlloc(padding, padding)
  IN  data \o paddingBuffer

\* results of operations that may throw
Return(v) == [threw |-> "", value |-> v]
Throw(msg) == [threw |-> msg, value |-> << >>]

\* unpad looking at the last byte only
unpadLastByteOnly(data, blockSize) ==
  IF Len(data) = 0 THEN Throw("Empty data buffer")
  ELSE LET lastByte == At(data, Len(data) - 1)
       IN  IF lastByte = 0 \/ lastByte > Len(data) \/ lastByte > blockSize
           THEN Throw("Invalid padding value")
           ELSE Return(Slice(data, 0, Len(data) - lastByte))

\* unpad refusing a whole block of padding
unpadRejectsFullBlock(data, blockSize) ==
  IF Len(data) = 0 THEN Throw("Empty data buffer")
  ELSE LET lastByte == At(data, Len(data) - 1)
       IN  IF lastByte = 0 \/ lastByte > Len(data) \/ lastByte >= blockSize
           THEN Throw("Invalid padding value")
           ELSE IF \E i \in (Len(data) - lastByte)..(Len(data) - 1) : At(data, i) # lastByte
           THEN Throw("Invalid padding pattern")
           ELSE Return(Slice(data, 0, Len(data) - lastByte))

\* unpad without the check of an empty buffer
unpadAcceptsEmpty(data, blockSize) ==
  IF Len(data) = 0 THEN Return(<< >>)
  ELSE LET lastByte == At(data, Len(data) - 1)
       IN  IF lastByte = 0 \/ lastByte > Len(data) \/ lastByte > blockSize
           THEN Throw("Invalid padding value")
           ELSE IF \E i \in (Len(data) - lastByte)..(Len(data) - 1) : At(data, i) # lastByte
           THEN Throw("Invalid padding pattern")
           ELSE Return(Slice(data, 0, Len(data) - lastByte))

\* unpad whose loop starts one byte late
unpadLoopFromSecond(data, blockSize) ==
  IF Len(data) = 0 THEN Throw("Empty data buffer")
  ELSE LET lastByte == At(data, Len(data) - 1)
       IN  IF lastByte = 0 \/ lastByte > Len(data) \/ lastByte > blockSize
           THEN Throw("Invalid padding value")
           ELSE IF \E i \in (Len(data) - lastByte + 1)..(Len(data) - 1) : At(data, i) # lastByte
           THEN Throw("Invalid padding pattern")
           ELSE Return(Slice(data, 0, Len(data) - lastByte))

unpad(data, blockSize) ==
  IF Len(data) = 0 THEN Throw("Empty data buffer")
  ELSE LET lastByte == At(data, Len(data) - 1)
       IN  IF lastByte = 0 \/ lastByte > Len(data) \/ lastByte > blockSize
           THEN Throw("Invalid padding value")
           ELSE IF \E i \in (Len(data) - lastByte)..(Len(data) - 1) : At(data, i) # lastByte
           THEN Throw("Invalid padding pattern")
           ELSE Return(Slice(data, 0, Len(data) - lastByte))

(***************************************************************************)
(* Buffer conversions: Buffer.from(s, 'utf-8'), buf.toString('utf-8'),     *)
(* buf.toString('hex') and Buffer.from(s, 'hex')                           *)
(***************************************************************************)
IsHighSurrogate(u) == u >= 55296 /\ u <= 56319
IsLowSurrogate(u) == u >= 56320 /\ u <= 57343

\* the UTF-8 bytes of one code point
EncodeCodePoint(cp) ==
  IF cp < 128 THEN << cp >>
  ELSE IF cp < 2048 THEN << 192 + (cp \div 64), 128 + (cp % 64) >>
  ELSE IF cp < 65536
       THEN << 224 + (cp \div 4096), 128 + ((cp \div 64) % 64), 128 + (cp % 64) >>
       ELSE << 240 + (cp \div 262144), 128 + ((cp \div 4096) % 64),
               128 + ((cp \div 64) % 64), 128 + (cp % 64) >>

RECURSIVE Utf8Encode(_)
\* Buffer.from(str, 'utf-8'): a lone surrogate is written as U+FFFD
Utf8Encode(str) ==
  IF str = << >> THEN << >>
  ELSE LET u == Head(str)
       IN  IF IsHighSurrogate(u) /\ Len(str) >= 2 /\ IsLowSurrogate(str[2])
           THEN EncodeCodePoint(65536 + (u - 55296) * 1024 + (str[2] - 56320))
                  \o Utf8Encode(Tail(Tail(str)))
           ELSE IF IsHighSurrogate(u) \/ IsLowSurrogate(u)
           THEN << 239, 191, 189 >> \o Utf8Encode(Tail(str))
           ELSE EncodeCodePoint(u) \o Utf8Encode(Tail(str))

\* the UTF-16 code units of one code point
CodeUnits(cp) ==
  IF cp < 65536 THEN << cp >>
  ELSE << 55296 + ((cp - 65536) \div 1024), 56320 + ((cp - 65536) % 1024) >>

RECURSIVE Utf8DecodeLoop(_, _, _, _, _, _, _)
\* the decoder's state: bytes still needed and seen, the code point so far,
\* and the bounds of the next continuation byte
Utf8DecodeLoop(buf, i, needed, seen, cp, lower, upper) ==
  IF i > Len(buf) THEN (IF needed # 0 THEN << 65533 >> ELSE << >>)
  ELSE LET b == buf[i]
       IN  IF needed = 0
           THEN IF b < 128 THEN << b >> \o Utf8DecodeLoop(buf, i + 1, 0, 0, 0, 128, 191)
                ELSE IF b >= 194 /\ b <= 223
                THEN Utf8DecodeLoop(buf, i + 1, 1, 0, b % 32, 128, 191)
                ELSE IF b >= 224 /\ b <= 239
                THEN Utf8DecodeLoop(buf, i + 1, 2, 0, b % 16,
                                    IF b = 224 THEN 160 ELSE 128,
                                    IF b = 237 THEN 159 ELSE 191)
                ELSE IF b >= 240 /\ b <= 244
                THEN Utf8DecodeLoop(buf, i + 1, 3, 0, b % 8,
                                    IF b = 240 THEN 144 ELSE 128,
                                    IF b = 244 THEN 143 ELSE 191)
                ELSE << 65533 >> \o Utf8DecodeLoop(buf, i + 1, 0, 0, 0, 128, 191)
           ELSE IF b < lower \/ b > upper
           THEN << 65533 >> \o Utf8DecodeLoop(buf, i, 0, 0, 0, 128, 191)
           ELSE LET cp1 == cp * 64 + (b % 64)
                IN  IF seen + 1 = needed
                    THEN CodeUnits(cp1) \o Utf8DecodeLoop(buf, i + 1, 0, 0, 0, 128, 191)
                    ELSE Utf8DecodeLoop(buf, i + 1, needed, seen + 1, cp1, 128, 191)

\* buf.toString('utf-8'): ill-formed sequences decode to U+FFFD
Utf8Decode(buf) == Utf8DecodeLoop(buf, 1, 0, 0, 0, 128, 191)

HexDigits == << "0", "1", "2", "3", "4", "5", "6", "7",
                "8", "9", "a", "b", "c", "d", "e", "f" >>
UpperHexDigits == << "0", "1", "2", "3", "4", "5", "6", "7",
                     "8", "9", "A", "B", "C", "D", "E", "F" >>

\* the value of a hex digit character, -1 for any other character
HexValues ==
  ("0" :> 0) @@ ("1" :> 1) @@ ("2" :> 2) @@ ("3" :> 3) @@ ("4" :> 4) @@ ("5" :> 5) @@
  ("6" :> 6) @@ ("7" :> 7) @@ ("8" :> 8) @@ ("9" :> 9) @@
  ("a" :> 10) @@ ("b" :> 11) @@ ("c" :> 12) @@ ("d" :> 13) @@ ("e" :> 14) @@ ("f" :> 15) @@
  ("A" :> 10) @@ ("B" :> 11) @@ ("C" :> 12) @@ ("D" :> 13) @@ ("E" :> 14) @@ ("F" :> 15)

HexValue(c) == IF c \in DOMAIN HexValues THEN HexValues[c] ELSE -1

\* buf.toString('hex'): two lowercase digits per byte
HexEncode(buf) ==
  [k \in 1..(2 * Len(buf)) |->
    IF k % 2 = 1 THEN HexDigits[(buf[(k + 1) \div 2] \div 16) + 1]
    ELSE HexDigits[(buf[k \div 2] % 16) + 1]]

\* the number of leading digit pairs of str that are both hex digits
RECURSIVE HexPairs(_, _)
HexPairs(str, n) ==
  IF 2 * n + 2 <= Len(str) /\ HexValue(str[2 * n + 1]) >= 0 /\ HexValue(str[2 * n + 2]) >= 0
  THEN HexPairs(str, n + 1)
  ELSE n

\* Buffer.from(str, 'hex'): decoding stops at the first pair that is not hex,
\* and a trailing single character is dropped
HexDecode(str) ==
  [k \in 1..HexPairs(str, 0) |-> 16 * HexValue(str[2 * k - 1]) + HexValue(str[2 * k])]

(***************************************************************************)
(* class MTCv3                                                             *)
(***************************************************************************)
\* the key schedule the constructor slices out of the derived key material
\* a key schedule whose sub-keys start one byte apart
KeyScheduleOverlapping(keyMaterial, rounds, matrixSize) ==
  [r \in 1..rounds |-> Slice(keyMaterial, r - 1, r - 1 + matrixSize)]

KeySchedule(keyMaterial, rounds, matrixSize) ==
  [r \in 1..rounds |-> Slice(keyMaterial, (r - 1) * matrixSize, (r - 1) * matrixSize + matrixSize)]

\* new MTCv3(password, salt, rounds, matrixSize); randomIv is what
\* crypto.randomBytes(matrixSize * matrixSize) returned
MTCv3(password, salt, rounds, matrixSize, randomIv) ==
  [ rounds |-> rounds,
    matrixSize |-> matrixSize,
    keySchedule |-> KeySchedule(deriveKey(password, salt, 100000, rounds * matrixSize),
                                rounds, matrixSize),
    iv |-> randomIv ]

\* fillMatrix(data, 'row') and reshape(data, N): row-major fill of an N x N
\* matrix of zeros
fillMatrix(data, N) ==
  Eval([row \in 1..N |-> Eval([col \in 1..N |->
     IF (row - 1) * N + (col - 1) < Len(data) THEN data[(row - 1) * N + col] ELSE 0])])

reshape(data, N) == fillMatrix(data, N)

\* xored[i] = block[i] ^ previousCipher[i] over a Buffer of block.length bytes
xorBlock(block, previousCipher) ==
  Eval([i \in 1..Len(block) |-> Xor(block[i], At(previousCipher, i - 1)) % 256])

\* one round of encryptBlock
encryptRound(self, data, r) ==
  LET key == self.keySchedule[r + 1]
      shiftAmounts == key
      matrix == fillMatrix(data, self.matrixSize)
      shiftedMatrix == shiftRows(matrix, shiftAmounts)
      permutation == generateColumnPermutation(key, r, self.matrixSize)
      permutedMatrix == permuteColumns(shiftedMatrix, permutation)
      flatData == substituteBytes(Flat(permutedMatrix), AES_S_BOX)
      mixedMatrix == mixMatrix(reshape(flatData, self.matrixSize))
  IN  permuteBits(Flat(mixedMatrix), key, r)

RECURSIVE encryptLoop(_, _, _)
encryptLoop(self, data, r) ==
  IF r >= self.rounds THEN data
  ELSE encryptLoop(self, encryptRound(self, data, r), r + 1)

encryptBlock(self, block) == encryptLoop(self, block, 0)

\* one round of decryptBlock
decryptRound(self, data, r) ==
  LET key == self.keySchedule[r + 1]
      shiftAmounts == key
      data1 == inversePermuteBits(data, key, r)
      matrix1 == inverseMixMatrix(fillMatrix(data1, self.matrixSize))
      flatData == inverseSubstituteBytes(Flat(matrix1), AES_INV_S_BOX)
      matrix2 == reshape(flatData, self.matrixSize)
      permutation == generateColumnPermutation(key, r, self.matrixSize)
      inversePermutation == generateInverseColumnPermutation(permutation)
      matrix3 == permuteColumns(matrix2, inversePermutation)
  IN  Flat(inverseShiftRows(matrix3, shiftAmounts))

RECURSIVE decryptLoop(_, _, _)
decryptLoop(self, data, r) ==
  IF r < 0 THEN data
  ELSE decryptLoop(self, decryptRound(self, data, r), r - 1)

decryptBlock(self, block) == decryptLoop(self, block, self.rounds - 1)

\* encryptBlock and decryptBlock throw when a round reaches the mixing layer
\* and the mixing layer throws
blockThrows(self) ==
  self.rounds >= 1 /\ mixThrows(fillMatrix(<< >>, self.matrixSize))

\* the blocks both encrypt and decrypt cut their data into
splitBlocks(data, blockSize) ==
  [k \in 1..((Len(data) + blockSize - 1) \div blockSize) |->
    Slice(data, (k - 1) * blockSize, k * blockSize)]

RECURSIVE cbcEncrypt(_, _, _)
\* the CBC loop of encrypt: the cipher blocks, in order
cbcEncrypt(self, blocks, previousCipher) ==
  IF blocks = << >> THEN << >>
  ELSE LET xored == xorBlock(Head(blocks), previousCipher)
           encrypted == encryptBlock(self, xored)
       IN  << encrypted >> \o cbcEncrypt(self, Tail(blocks), encrypted)

\* encrypt returning the cipher blocks without the IV in front
encryptWithoutIv(self, plaintext) ==
  LET blockSize == self.matrixSize * self.matrixSize
      data == pad(Utf8Encode(plaintext), blockSize)
      blocks == splitBlocks(data, blockSize)
      ciphertextBlocks == cbcEncrypt(self, blocks, self.iv)
      finalBuffer == Flat(ciphertextBlocks)
  IN  IF blocks # << >> /\ blockThrows(self) THEN Throw("TypeError")
      ELSE Return(HexEncode(finalBuffer))

encrypt(self, plaintext) ==
  LET blockSize == self.matrixSize * self.matrixSize
      data == pad(Utf8Encode(plaintext), blockSize)
      blocks == splitBlocks(data, blockSize)
      ciphertextBlocks == cbcEncrypt(self, blocks, self.iv)
      finalBuffer == self.iv \o Flat(ciphertextBlocks)
  IN  IF blocks # << >> /\ blockThrows(self) THEN Throw("TypeError")
      ELSE Return(HexEncode(finalBuffer))

RECURSIVE cbcDecryptChainsPlain(_, _, _)
\* cbcDecrypt chaining from the recovered block instead of the received one
cbcDecryptChainsPlain(self, blocks, previousCipher) ==
  IF blocks = << >> THEN << >>
  ELSE LET block == Head(blocks)
           decrypted == decryptBlock(self, block)
           xored == xorBlock(decrypted, previousCipher)
       IN  << xored >> \o cbcDecryptChainsPlain(self, Tail(blocks), xored)

RECURSIVE cbcDecryptChainsDecrypted(_, _, _)
\* cbcDecrypt chaining from the output of decryptBlock instead of the received block
cbcDecryptChainsDecrypted(self, blocks, previousCipher) ==
  IF blocks = << >> THEN << >>
  ELSE LET block == Head(blocks)
           decrypted == decryptBlock(self, block)
           xored == xorBlock(decrypted, previousCipher)
       IN  << xored >> \o cbcDecryptChainsDecrypted(self, Tail(blocks), decrypted)

RECURSIVE cbcDecryptAccumulating(_, _, _)
\* cbcDecrypt whose chaining value gathers every block received so far
cbcDecryptAccumulating(self, blocks, previousCipher) ==
  IF blocks = << >> THEN << >>
  ELSE LET block == Head(blocks)
           decrypted == decryptBlock(self, block)
           xored == xorBlock(decrypted, previousCipher)
       IN  << xored >> \o
             cbcDecryptAccumulating(self, Tail(blocks), xorBlock(block, previousCipher))

RECURSIVE cbcDecrypt(_, _, _)
\* the CBC loop of decrypt: the plaintext blocks, in order
cbcDecrypt(self, blocks, previousCipher) ==
  IF blocks = << >> THEN << >>
  ELSE LET block == Head(blocks)
           decrypted == decryptBlock(self, block)
           xored == xorBlock(decrypted, previousCipher)
       IN  << xored >> \o cbcDecrypt(self, Tail(blocks), block)

\* decrypt without the check of the bytes after the IV
decryptUnaligned(self, ciphertextHex) ==
  LET ciphertextWithIV == HexDecode(ciphertextHex)
      blockSize == self.matrixSize * self.matrixSize
      iv == Slice(ciphertextWithIV, 0, blockSize)
      ciphertext == SliceFrom(ciphertextWithIV, blockSize)
  IN  IF Len(ciphertextWithIV) < blockSize THEN Throw("Invalid ciphertext length")
      ELSE LET blocks == splitBlocks(ciphertext, blockSize)
               plaintext == Flat(cbcDecrypt(self, blocks, iv))
               unpadded == unpad(plaintext, blockSize)
           IN  IF unpadded.threw # ""
               THEN Throw("Decryption failed: Invalid padding")
               ELSE Return(Utf8Decode(unpadded.value))

\* decrypt letting unpad's own error through
decryptRethrows(self, ciphertextHex) ==
  LET ciphertextWithIV == HexDecode(ciphertextHex)
      blockSize == self.matrixSize * self.matrixSize
      iv == Slice(ciphertextWithIV, 0, blockSize)
      ciphertext == SliceFrom(ciphertextWithIV, blockSize)
  IN  IF Len(ciphertextWithIV) < blockSize THEN Throw("Invalid ciphertext length")
      ELSE IF Len(ciphertext) % blockSize # 0 THEN Throw("Invalid ciphertext length")
      ELSE LET blocks == splitBlocks(ciphertext, blockSize)
               plaintext == Flat(cbcDecrypt(self, blocks, iv))
               unpadded == unpad(plaintext, blockSize)
           IN  IF unpadded.threw # ""
               THEN Throw(unpadded.threw)
               ELSE Return(Utf8Decode(unpadded.value))

decrypt(self, ciphertextHex) ==
  LET ciphertextWithIV == HexDecode(ciphertextHex)
      blockSize == self.matrixSize * self.matrixSize
      iv == Slice(ciphertextWithIV, 0, blockSize)
      ciphertext == SliceFrom(ciphertextWithIV, blockSize)
  IN  IF Len(ciphertextWithIV) < blockSize THEN Throw("Invalid ciphertext length")
      ELSE IF Len(ciphertext) % blockSize # 0 THEN Throw("Invalid ciphertext length")
      ELSE LET blocks == splitBlocks(ciphertext, blockSize)
               plaintext == Flat(cbcDecrypt(self, blocks, iv))
               unpadded == unpad(plaintext, blockSize)
           IN  IF blocks # << >> /\ blockThrows(self) THEN Throw("TypeError")
               ELSE IF unpadded.threw # ""
               THEN Throw("Decryption failed: Invalid padding")
               ELSE Return(Utf8Decode(unpadded.value))

(***************************************************************************)
(* src/MTCV3.ts with src/helpers/encryptionUtils.ts: the TypeScript source, *)
(* whose mixing layer multiplies modulo 256 and whose decrypt and unpad do  *)
(* not validate lengths                                                     *)
(***************************************************************************)
\* JavaScript's %: the remainder has the sign of the dividend
JsRem(a, m) == IF a >= 0 THEN a % m ELSE -((-a) % m)

MIXING_MATRIX ==
  << << 2, 3, 1, 1 >>,
     << 1, 2, 3, 1 >>,
     << 1, 1, 2, 3 >>,
     << 3, 1, 1, 2 >> >>

\* the adjugate matrixInverseMod256 hard-codes
adjugate ==
  << << 4, 253, 11, 239 >>,
     << 239, 4, 253, 11 >>,
     << 11, 239, 4, 253 >>,
     << 247, 11, 235, 4 >> >>

RECURSIVE gcd(_, _)
gcd(a, b) == IF b # 0 THEN gcd(b, JsRem(a, b)) ELSE a

RECURSIVE modInverseLoop(_, _, _, _)
modInverseLoop(a, modulus, y, x) ==
  IF a > 1
  THEN LET q == a \div modulus
       IN  modInverseLoop(modulus, JsRem(a, modulus), x - q * y, y)
  ELSE x

modInverse(a, modulus) ==
  IF modulus = 1 THEN 0
  ELSE LET x == modInverseLoop(a, modulus, 0, 1)
       IN  IF x < 0 THEN x + modulus ELSE x

\* the matrix argument is not read: the adjugate and the determinant are fixed
matrixInverseMod256(matrix) ==
  LET det == -23
      detMod == JsRem(JsRem(det, 256) + 256, 256)
      detInv == modInverse(detMod, 256)
  IN  IF gcd(detMod, 256) # 1 THEN << >>
      ELSE Eval([i \in 1..Len(adjugate) |->
             Eval([j \in 1..Len(adjugate[i]) |->
               JsRem(JsRem(adjugate[i][j] * detInv, 256) + 256, 256)])])

INVERSE_MIXING_MATRIX == matrixInverseMod256(MIXING_MATRIX)

\* mixMatrix(matrix, mixingMatrix) of helpers/encryptionUtils.ts: a matrix
\* product with integer sums reduced modulo 256
mixMatrixMod256(matrix, mixingMatrix) ==
  LET N == Len(matrix)
  IN  Eval([i \in 1..N |-> Eval([j \in 1..N |->
        LET term(k) == mixingMatrix[i][k] * matrix[k][j]
            RECURSIVE sum(_)
            sum(k) == IF k > N THEN 0 ELSE term(k) + sum(k + 1)
        IN  sum(1) % 256])])

\* inverseMixMatrix(matrix, inverseMixingMatrix): the same product
inverseMixMatrixMod256(matrix, inverseMixingMatrix) ==
  LET N == Len(matrix)
  IN  Eval([i \in 1..N |-> Eval([j \in 1..N |->
        LET term(k) == inverseMixingMatrix[i][k] * matrix[k][j]
            RECURSIVE sum(_)
            sum(k) == IF k > N THEN 0 ELSE term(k) + sum(k + 1)
        IN  sum(1) % 256])])

\* unpad(data) of helpers/encryptionUtils.ts. On an empty buffer padding is
\* undefined: both comparisons are false, the loop does not run and
\* data.slice(0, NaN) is the empty buffer
unpadTs(data) ==
  LET padding == At(data, Len(data) - 1)
  IN  IF padding = Undefined THEN Return(Slice(data, 0, 0))
      ELSE IF padding = 0 \/ padding > Len(data) THEN Throw("Invalid padding value")
      ELSE IF \E i \in (Len(data) - padding)..(Len(data) - 1) : At(data, i) # padding
      THEN Throw("Inconsistent padding bytes")
      ELSE Return(Slice(data, 0, Len(data) - padding))

\* new MTCv3(password, salt, rounds, matrixSize) of src/MTCV3.ts
MTCv3Ts(password, salt, rounds, matrixSize, randomIv) ==
  [ rounds |-> rounds,
    matrixSize |-> matrixSize,
    keySchedule |-> KeySchedule(deriveKey(password, salt, 100000, rounds * matrixSize),
                                rounds, matrixSize),
    mixingMatrix |-> MIXING_MATRIX,
    inverseMixingMatrix |-> INVERSE_MIXING_MATRIX,
    iv |-> randomIv ]

encryptRoundTs(self, data, r) ==
  LET key == self.keySchedule[r + 1]
      shiftAmounts == key
      matrix == fillMatrix(data, self.matrixSize)
      shiftedMatrix == shiftRows(matrix, shiftAmounts)
      permutation == generateColumnPermutation(key, r, self.matrixSize)
      permutedMatrix == permuteColumns(shiftedMatrix, permutation)
      flatData == substituteBytes(Flat(permutedMatrix), AES_S_BOX)
      mixedMatrix == mixMatrixMod256(reshape(flatData, self.matrixSize), self.mixingMatrix)
  IN  permuteBits(Flat(mixedMatrix), key, r)

RECURSIVE encryptLoopTs(_, _, _)
encryptLoopTs(self, data, r) ==
  IF r >= self.rounds THEN data
  ELSE encryptLoopTs(self, encryptRoundTs(self, data, r), r + 1)

encryptBlockTs(self, block) == encryptLoopTs(self, block, 0)

decryptRoundTs(self, data, r) ==
  LET key == self.keySchedule[r + 1]
      shiftAmounts == key
      data1 == inversePermuteBits(data, key, r)
      matrix1 == inverseMixMatrixMod256(fillMatrix(data1, self.matrixSize),
                                        self.inverseMixingMatrix)
      flatData == inverseSubstituteBytes(Flat(matrix1), AES_INV_S_BOX)
      matrix2 == reshape(flatData, self.matrixSize)
      permutation == generateColumnPermutation(self.keySchedule[r + 1], r, self.matrixSize)
      inversePermutation == generateInverseColumnPermutation(permutation)
      matrix3 == permuteColumns(matrix2, inversePermutation)
  IN  Flat(inverseShiftRows(matrix3, shiftAmounts))

RECURSIVE decryptLoopTs(_, _, _)
decryptLoopTs(self, data, r) ==
  IF r < 0 THEN data
  ELSE decryptLoopTs(self, decryptRoundTs(self, data, r), r - 1)

decryptBlockTs(self, block) == decryptLoopTs(self, block, self.rounds - 1)

RECURSIVE cbcEncryptTs(_, _, _)
cbcEncryptTs(self, blocks, previousCipher) ==
  IF blocks = << >> THEN << >>
  ELSE LET xored == xorBlock(Head(blocks), previousCipher)
           encrypted == encryptBlockTs(self, xored)
       IN  << encrypted >> \o cbcEncryptTs(self, Tail(blocks), encrypted)

encryptTs(self, plaintext) ==
  LET blockSize == self.matrixSize * self.matrixSize
      data == pad(Utf8Encode(plaintext), blockSize)
      blocks == splitBlocks(data, blockSize)
      ciphertext == Flat(cbcEncryptTs(self, blocks, self.iv))
      finalBuffer == self.iv \o ciphertext
  IN  Return(HexEncode(finalBuffer))

RECURSIVE cbcDecryptTs(_, _, _)
cbcDecryptTs(self, blocks, previousCipher) ==
  IF blocks = << >> THEN << >>
  ELSE LET block == Head(blocks)
           decrypted == decryptBlockTs(self, block)
           xored == xorBlock(decrypted, previousCipher)
       IN  << xored >> \o cbcDecryptTs(self, Tail(blocks), block)

\* decrypt of src/MTCV3.ts: no length check, and unpad's errors are not caught
decryptTs(self, ciphertextHex) ==
  LET ciphertextWithIV == HexDecode(ciphertextHex)
      blockSize == self.matrixSize * self.matrixSize
      iv == Slice(ciphertextWithIV, 0, blockSize)
      ciphertext == SliceFrom(ciphertextWithIV, blockSize)
      blocks == splitBlocks(ciphertext, blockSize)
      plaintext == Flat(cbcDecryptTs(self, blocks, iv))
      unpadded == unpadTs(plaintext)
  IN  IF unpadded.threw # "" THEN unpadded
      ELSE Return(Utf8Decode(unpadded.value))

(***************************************************************************)

(* Inputs                                                                  *)
(***************************************************************************)
\* bounds of the model
MaxRounds == 2
MaxBlocks == 2

\* the constructor's default matrixSize
DefaultMatrixSize == 4
BlockSize == DefaultMatrixSize * DefaultMatrixSize

Names == { "A", "B" }

\* password and salt of instance A, and the ones instance B is built with
Password == "strongpassword"
Salt == "somesalt"
Credentials ==
  { << "strongpassword", "somesalt" >>,
    << "differentpassword", "somesalt" >>,
    << "strongpassword", "differentsalt" >> }

\* values crypto.randomBytes(16) may return
RandomIVs ==
  { << 54, 113, 6, 100, 214, 27, 146, 149, 229, 66, 95, 240, 13, 101, 251, 250 >>,
    << 113, 165, 72, 131, 37, 247, 10, 108, 119, 237, 255, 42, 175, 68, 215, 209 >> }

\* values crypto.randomBytes(n) may return, for n up to 32
RandomPool ==
  { << 54, 113, 6, 100, 214, 27, 146, 149, 229, 66, 95, 240, 13, 101, 251, 250, 144, 113, 243, 98, 108, 39, 178, 79, 17, 137, 192, 20, 166, 245, 49, 245 >>,
    << 113, 165, 72, 131, 37, 247, 10, 108, 119, 237, 255, 42, 175, 68, 215, 209, 244, 85, 197, 51, 79, 254, 94, 95, 25, 219, 151, 225, 254, 125, 224, 115 >> }
RandomBytes(n) == { Slice(p, 0, n) : p \in RandomPool }

Repeat(u, n) == [i \in 1..n |-> u]

\* "HELLO WORLD", "test", the test suite's Unicode string (BMP characters and
\* surrogate pairs), eight times U+00E9, and a lone high surrogate
HelloWorld == << 72, 69, 76, 76, 79, 32, 87, 79, 82, 76, 68 >>
TestText == << 116, 101, 115, 116 >>
UnicodeText == << 20320, 22909, 19990, 30028, 55357, 56832, 55356, 57101 >>
LatinText == Repeat(233, 8)
LoneSurrogate == << 65, 55357 >>

PlaintextLengths ==
  { 0, 1, BlockSize - 1, BlockSize + 1 } \cup { k * BlockSize : k \in 1..MaxBlocks }

Plaintexts ==
  { Repeat(65, n) : n \in PlaintextLengths }
    \cup { HelloWorld, TestText, UnicodeText, LatinText, LoneSurrogate }

\* a string every code unit of which is part of a well-formed UTF-16 sequence
RECURSIVE WellFormed(_)
WellFormed(str) ==
  IF str = << >> THEN TRUE
  ELSE IF IsHighSurrogate(Head(str))
       THEN Len(str) >= 2 /\ IsLowSurrogate(str[2]) /\ WellFormed(Tail(Tail(str)))
       ELSE ~IsLowSurrogate(Head(str)) /\ WellFormed(Tail(str))

\* 'invalid-hex-string'
InvalidHexString ==
  << "i", "n", "v", "a", "l", "i", "d", "-", "h", "e", "x", "-",
     "s", "t", "r", "i", "n", "g" >>

\* str with the character at 1-based position k replaced by c
WithChar(str, k, c) == [j \in 1..Len(str) |-> IF j = k THEN c ELSE str[j]]

\* another hex digit than the hex digit c
OtherDigit(c) == HexDigits[((HexValue(c) + 1) % 16) + 1]

\* the same hex string in upper case
UpperCase(str) == [k \in 1..Len(str) |-> UpperHexDigits[HexValue(str[k]) + 1]]

\* the strings handed to decrypt once encrypt has returned w: w itself,
\* w truncated, w with blocks removed, w altered, and strings that are no
\* ciphertext at all
DecryptInputs(w) ==
  LET n == Len(w)
      h == 2 * BlockSize
  IN  { w,
        << >>,
        InvalidHexString,
        Slice(w, 0, n - 2),
        Slice(w, 0, n - 1),
        Slice(w, 0, n - h),
        Slice(w, 0, h),
        Slice(w, 0, h - 2),
        UpperCase(w),
        WithChar(w, n, OtherDigit(w[n])),
        WithChar(w, h, OtherDigit(w[h])),
        WithChar(w, n - 3, "g") }

(***************************************************************************)
(* State                                                                   *)
(***************************************************************************)
VARIABLES
  mtc,        \* the cipher instances, by name
  message,    \* the last encrypt call: who, its argument, what it returned
  attempt,    \* the last decrypt call: who, its argument, what it returned or threw
  sent,       \* the IV at the head of every value encrypt returned so far, with who
  blockCall,  \* the last encryptBlock / decryptBlock calls on one block
  padCall,    \* the last pad / unpad calls on one buffer
  helperCall, \* the last call of a helper function, and of its inverse on the result
  earlier     \* the decrypt call before the last one

vars == << mtc, message, attempt, sent, blockCall, padCall, helperCall, earlier >>

NoMessage == [by |-> "none", plaintext |-> << >>, returned |-> Return(<< >>)]
NoAttempt == [by |-> "none", input |-> << >>, outcome |-> Return(<< >>)]
NoBlockCall ==
  [by |-> "none", stage |-> "none", block |-> << >>, encrypted |-> << >>, decrypted |-> << >>]
NoPadCall ==
  [stage |-> "none", data |-> << >>, blockSize |-> 0, padded |-> << >>,
   unpadded |-> Return(<< >>)]

NoHelperCall == [fn |-> "none", args |-> << >>, result |-> << >>, undone |-> << >>]

\* an instance of the class of src/MTCV3.ts
IsTs(self) == "mixingMatrix" \in DOMAIN self

NoCalls ==
  /\ message = NoMessage
  /\ attempt = NoAttempt
  /\ sent = << >>
  /\ blockCall = NoBlockCall
  /\ padCall = NoPadCall
  /\ helperCall = NoHelperCall
  /\ earlier = NoAttempt

\* two instances built with the same rounds; A as the test suite builds it
Init ==
  /\ mtc \in { [n \in Names |->
                 IF n = "A" THEN MTCv3(Password, Salt, r, DefaultMatrixSize, ivA)
                 ELSE MTCv3(c[1], c[2], r, DefaultMatrixSize, ivB)] :
               r \in 1..MaxRounds, ivA \in RandomIVs, ivB \in RandomIVs, c \in Credentials }
  /\ NoCalls

\* the same two instances of the class of src/MTCV3.ts
InitTs ==
  /\ mtc \in { [n \in Names |->
                 IF n = "A" THEN MTCv3Ts(Password, Salt, r, DefaultMatrixSize, ivA)
                 ELSE MTCv3Ts(c[1], c[2], r, DefaultMatrixSize, ivB)] :
               r \in 1..MaxRounds, ivA \in RandomIVs, ivB \in RandomIVs, c \in Credentials }
  /\ NoCalls

\* the IV at the head of a value encrypt returned
IvOf(self, returned) ==
  Slice(HexDecode(returned.value), 0, self.matrixSize * self.matrixSize)

\* the strings handed to decrypt after the last encrypt call
InputsNow ==
  IF message.by = "none" \/ message.returned.threw # "" THEN { << >>, InvalidHexString }
  ELSE DecryptInputs(message.returned.value)

\* mtc[i].encrypt(plaintext), for any instance and plaintext
Encrypt ==
  /\ message.by = "none"
  /\ \E i \in Names, plaintext \in Plaintexts :
       /\ ~IsTs(mtc[i])
       /\ LET returned == encrypt(mtc[i], plaintext)
          IN  /\ message' = [by |-> i, plaintext |-> plaintext, returned |-> returned]
              /\ sent' = Append(sent, [by |-> i, iv |-> IvOf(mtc[i], returned)])
  /\ UNCHANGED << mtc, attempt, blockCall, padCall, helperCall, earlier >>

\* mtc[i].decrypt(input), for any instance and input
Decrypt ==
  /\ message.by # "none"
  /\ attempt.by = "none"
  /\ \E i \in Names, input \in InputsNow :
       /\ ~IsTs(mtc[i])
       /\ attempt' = [by |-> i, input |-> input, outcome |-> decrypt(mtc[i], input)]
  /\ UNCHANGED << mtc, message, sent, blockCall, padCall, helperCall, earlier >>

\* encrypt and decrypt of src/MTCV3.ts
EncryptTs ==
  /\ message.by = "none"
  /\ \E i \in Names, plaintext \in Plaintexts :
       /\ IsTs(mtc[i])
       /\ LET returned == encryptTs(mtc[i], plaintext)
          IN  /\ message' = [by |-> i, plaintext |-> plaintext, returned |-> returned]
              /\ sent' = Append(sent, [by |-> i, iv |-> IvOf(mtc[i], returned)])
  /\ UNCHANGED << mtc, attempt, blockCall, padCall, helperCall, earlier >>

DecryptTs ==
  /\ message.by # "none"
  /\ attempt.by = "none"
  /\ \E i \in Names, input \in InputsNow :
       /\ IsTs(mtc[i])
       /\ attempt' = [by |-> i, input |-> input, outcome |-> decryptTs(mtc[i], input)]
  /\ UNCHANGED << mtc, message, sent, blockCall, padCall, helperCall, earlier >>

\* one message is encrypted and one string is handed to decrypt
Next ==
  \/ Encrypt
  \/ Decrypt

Spec == Init /\ [][Next]_vars

\* the same with the class of src/MTCV3.ts
NextTs ==
  \/ EncryptTs
  \/ DecryptTs

SpecTs == InitTs /\ [][NextTs]_vars

\* encrypt alone, of either class
InitEither == Init \/ InitTs

NextEncrypt ==
  \/ Encrypt
  \/ EncryptTs

SpecEncrypt == InitEither /\ [][NextEncrypt]_vars

(***************************************************************************)
(* Instances built with a matrixSize other than the default                *)
(***************************************************************************)
OtherMatrixSizes == { 1, 2, 3, 5 }

\* two instances of the class of part_001 with the same password, salt, rounds
\* and matrixSize
InitSize ==
  /\ mtc \in { [n \in Names |->
                 MTCv3(Password, Salt, r, size, Slice(IF n = "A" THEN ivA ELSE ivB, 0, size * size))] :
               r \in 1..MaxRounds, size \in OtherMatrixSizes,
               ivA \in RandomPool, ivB \in RandomPool }
  /\ NoCalls

SpecSize == InitSize /\ [][Next]_vars

(***************************************************************************)
(* encryptBlock and decryptBlock on single blocks                          *)
(***************************************************************************)
\* 16-byte blocks
Blocks ==
  { Repeat(0, BlockSize), Repeat(255, BlockSize), Iota(BlockSize),
    [i \in 1..BlockSize |-> (i * 37 + 11) % 256],
    [i \in 1..BlockSize |-> IF i = 1 THEN 128 ELSE 0],
    Utf8Encode(HelloWorld) \o Repeat(5, 5) }

\* encryptBlock(block), of the class of the instance
EncryptBlock ==
  /\ blockCall.stage = "none"
  /\ \E i \in Names, block \in Blocks :
       blockCall' = [by |-> i, stage |-> "encrypted", block |-> block,
                     encrypted |-> IF IsTs(mtc[i]) THEN encryptBlockTs(mtc[i], block)
                                   ELSE encryptBlock(mtc[i], block),
                     decrypted |-> << >>]
  /\ UNCHANGED << mtc, message, attempt, sent, padCall, helperCall, earlier >>

\* decryptBlock on what encryptBlock returned, by the same instance
DecryptBlock ==
  /\ blockCall.stage = "encrypted"
  /\ blockCall' = [blockCall EXCEPT
                     !.stage = "decrypted",
                     !.decrypted = IF IsTs(mtc[blockCall.by])
                                   THEN decryptBlockTs(mtc[blockCall.by], blockCall.encrypted)
                                   ELSE decryptBlock(mtc[blockCall.by], blockCall.encrypted)]
  /\ UNCHANGED << mtc, message, attempt, sent, padCall, helperCall, earlier >>

NextBlock ==
  \/ EncryptBlock
  \/ DecryptBlock

SpecBlock == InitEither /\ [][NextBlock]_vars

(***************************************************************************)
(* Sequences of encrypt calls                                              *)
(***************************************************************************)
MaxMessages == 3

ShortPlaintexts == { << >>, TestText, Repeat(65, BlockSize) }

InitSeq == InitEither

\* one more mtc[i].encrypt(plaintext) of the class of part_001
EncryptNext ==
  /\ Len(sent) < MaxMessages
  /\ \E i \in Names, plaintext \in ShortPlaintexts :
       /\ ~IsTs(mtc[i])
       /\ LET returned == encrypt(mtc[i], plaintext)
          IN  /\ message' = [by |-> i, plaintext |-> plaintext, returned |-> returned]
              /\ sent' = Append(sent, [by |-> i, iv |-> IvOf(mtc[i], returned)])
  /\ UNCHANGED << mtc, attempt, blockCall, padCall, helperCall, earlier >>

\* one more mtc[i].encrypt(plaintext) of the class of src/MTCV3.ts
EncryptNextTs ==
  /\ Len(sent) < MaxMessages
  /\ \E i \in Names, plaintext \in ShortPlaintexts :
       /\ IsTs(mtc[i])
       /\ LET returned == encryptTs(mtc[i], plaintext)
          IN  /\ message' = [by |-> i, plaintext |-> plaintext, returned |-> returned]
              /\ sent' = Append(sent, [by |-> i, iv |-> IvOf(mtc[i], returned)])
  /\ UNCHANGED << mtc, attempt, blockCall, padCall, helperCall, earlier >>

NextSeq ==
  \/ EncryptNext
  \/ EncryptNextTs

SpecSeq == InitSeq /\ [][NextSeq]_vars

(***************************************************************************)
(* pad and unpad on single buffers                                         *)
(***************************************************************************)
MaxDataLen == 3

\* block sizes around the one the cipher uses and around the range of a byte
PadBlockSizes == { 1, 2, 3, 4, BlockSize, 255, 256, 257, 300, 512 }

PadData ==
  { Repeat(65, n) : n \in 0..MaxDataLen }
    \cup { Iota(n) : n \in { BlockSize - 1, BlockSize, BlockSize + 1, 2 * BlockSize } }
    \cup { Repeat(1, 255), Repeat(0, 256), Repeat(2, 257), Utf8Encode(TestText) }

\* one instance; pad and unpad do not read it
InitPad ==
  /\ mtc = [n \in Names |-> MTCv3(Password, Salt, 1, DefaultMatrixSize,
                                   CHOOSE iv \in RandomIVs : TRUE)]
  /\ NoCalls

\* pad(data, blockSize)
Pad ==
  /\ padCall.stage = "none"
  /\ \E data \in PadData, blockSize \in PadBlockSizes :
       padCall' = [stage |-> "padded", data |-> data, blockSize |-> blockSize,
                   padded |-> pad(data, blockSize), unpadded |-> Return(<< >>)]
  /\ UNCHANGED << mtc, message, attempt, sent, blockCall, helperCall, earlier >>

\* unpad(padded, blockSize) on what pad returned
Unpad ==
  /\ padCall.stage = "padded"
  /\ padCall' = [padCall EXCEPT !.stage = "unpadded",
                                !.unpadded = unpad(padCall.padded, padCall.blockSize)]
  /\ UNCHANGED << mtc, message, attempt, sent, blockCall, helperCall, earlier >>

NextPad ==
  \/ Pad
  \/ Unpad

SpecPad == InitPad /\ [][NextPad]_vars

(***************************************************************************)
(* The helper functions on their own                                       *)
(***************************************************************************)
\* no instance is involved in a call of a helper function
InitHelper == InitPad

\* the matrix with v at row i, column j (from 1) and 0 elsewhere
UnitMatrix(N, i, j, v) ==
  [r \in 1..N |-> [c \in 1..N |-> IF r = i /\ c = j THEN v ELSE 0]]

\* the matrix of the mixing test
TestMatrix == [r \in 1..4 |-> [c \in 1..4 |-> 4 * (r - 1) + c]]

\* one-bit bytes and the byte of all ones
MixValues == { 1, 2, 4, 8, 16, 32, 64, 128, 255 }

\* 4 x 4 byte matrices: the mixing layers are linear, so the matrices with one
\* non-zero entry decide them
MixMatrices ==
  { UnitMatrix(4, i, j, v) : i \in 1..4, j \in 1..4, v \in MixValues }
    \cup { TestMatrix, UnitMatrix(4, 1, 1, 0),
           [r \in 1..4 |-> [c \in 1..4 |-> 255]],
           [r \in 1..4 |-> [c \in 1..4 |-> (r * 67 + c * 29 + 5) % 256]],
           [r \in 1..4 |-> [c \in 1..4 |-> AES_S_BOX[4 * r + c]]] }

\* mixMatrix(matrix) of src/unnamed/part_002
MixMatrix ==
  /\ helperCall.fn = "none"
  /\ \E matrix \in MixMatrices :
       helperCall' = [fn |-> "mixMatrix", args |-> << matrix >>,
                      result |-> mixMatrix(matrix), undone |-> << >>]
  /\ UNCHANGED << mtc, message, attempt, sent, blockCall, padCall, earlier >>

\* inverseMixMatrix(mixed) of src/unnamed/part_002 on what mixMatrix returned
InverseMixMatrix ==
  /\ helperCall.fn = "mixMatrix"
  /\ helperCall' = [helperCall EXCEPT !.fn = "inverseMixMatrix",
                                      !.undone = inverseMixMatrix(helperCall.result)]
  /\ UNCHANGED << mtc, message, attempt, sent, blockCall, padCall, earlier >>

\* mixMatrix(matrix, MIXING_MATRIX) of src/helpers/encryptionUtils.ts
MixMatrixTs ==
  /\ helperCall.fn = "none"
  /\ \E matrix \in MixMatrices :
       helperCall' = [fn |-> "mixMatrixTs", args |-> << matrix >>,
                      result |-> mixMatrixMod256(matrix, MIXING_MATRIX), undone |-> << >>]
  /\ UNCHANGED << mtc, message, attempt, sent, blockCall, padCall, earlier >>

\* inverseMixMatrix(mixed, INVERSE_MIXING_MATRIX) of src/helpers/encryptionUtils.ts
InverseMixMatrixTs ==
  /\ helperCall.fn = "mixMatrixTs"
  /\ helperCall' = [helperCall EXCEPT
                      !.fn = "inverseMixMatrixTs",
                      !.undone = inverseMixMatrixMod256(helperCall.result,
                                                        INVERSE_MIXING_MATRIX)]
  /\ UNCHANGED << mtc, message, attempt, sent, blockCall, padCall, earlier >>

NextMix ==
  \/ MixMatrix
  \/ InverseMixMatrix
  \/ MixMatrixTs
  \/ InverseMixMatrixTs

SpecMix == InitHelper /\ [][NextMix]_vars

\* the largest matrix the row and column helpers are called with
MaxN == 4

\* the N x N matrix whose entries are all different
Numbered(N) == [r \in 1..N |-> [c \in 1..N |-> N * (r - 1) + c - 1]]

\* shift amounts around the multiples of N, and the largest byte
ShiftAmounts(N) == { 0, 1, 2, N - 1, N, N + 1, 2 * N, 255 }

\* the vectors of N shift amounts
ShiftVectors(N) == [1..N -> ShiftAmounts(N)]

\* shiftRows(matrix, shiftAmounts)
ShiftRows ==
  /\ helperCall.fn = "none"
  /\ \E N \in 1..MaxN : \E shiftAmounts \in ShiftVectors(N) :
       helperCall' = [fn |-> "shiftRows", args |-> << Numbered(N), shiftAmounts >>,
                      result |-> shiftRows(Numbered(N), shiftAmounts), undone |-> << >>]
  /\ UNCHANGED << mtc, message, attempt, sent, blockCall, padCall, earlier >>

\* inverseShiftRows(shifted, shiftAmounts) on what shiftRows returned
InverseShiftRows ==
  /\ helperCall.fn = "shiftRows"
  /\ helperCall' = [helperCall EXCEPT
                      !.fn = "inverseShiftRows",
                      !.undone = inverseShiftRows(helperCall.result, helperCall.args[2])]
  /\ UNCHANGED << mtc, message, attempt, sent, blockCall, padCall, earlier >>

NextShift ==
  \/ ShiftRows
  \/ InverseShiftRows

SpecShift == InitHelper /\ [][NextShift]_vars

\* the bijections on {0..N-1}, as arrays
ColumnPermutations(N) ==
  { p \in [1..N -> 0..(N - 1)] : \A a \in 1..N : \A b \in 1..N : a # b => p[a] # p[b] }

\* N x N matrices: one with all entries different, one with equal entries in
\* different columns
PermuteMatrices(N) ==
  { Numbered(N), [r \in 1..N |-> [c \in 1..N |-> (r * c) % 3]] }

\* the sub-keys and round numbers whose digest is known: the round, and the
\* round 256 later, which Buffer.from([round]) stores as the same byte
HashedKeys ==
  { << SubSeq(SHA256_DIGESTS[e][1], 1, Len(SHA256_DIGESTS[e][1]) - 1),
       SHA256_DIGESTS[e][1][Len(SHA256_DIGESTS[e][1])] + wrap >> :
    e \in 1..Len(SHA256_DIGESTS), wrap \in { 0, 256 } }

\* the bytes of a digest the loop may read
HashBytes == { 0, 1, 2, 3, 254, 255 }

\* 32-byte digests differing in the bytes the loop reads for N up to MaxN
Hashes ==
  { [i \in 1..32 |-> IF i \in 2..MaxN THEN h[i] ELSE 0] : h \in [2..MaxN -> HashBytes] }

\* permuteColumns(matrix, permutation)
PermuteColumns ==
  /\ helperCall.fn = "none"
  /\ \E N \in 1..MaxN : \E matrix \in PermuteMatrices(N), permutation \in ColumnPermutations(N) :
       helperCall' = [fn |-> "permuteColumns", args |-> << matrix, permutation >>,
                      result |-> permuteColumns(matrix, permutation), undone |-> << >>]
  /\ UNCHANGED << mtc, message, attempt, sent, blockCall, padCall, earlier >>

\* permuteColumns(permuted, generateInverseColumnPermutation(permutation)) on
\* what permuteColumns returned, as decryptBlock calls them
InversePermuteColumns ==
  /\ helperCall.fn = "permuteColumns"
  /\ LET inversePermutation == generateInverseColumnPermutation(helperCall.args[2])
     IN  helperCall' = [helperCall EXCEPT
                          !.fn = "generateInverseColumnPermutation",
                          !.args = Append(helperCall.args, inversePermutation),
                          !.undone = permuteColumns(helperCall.result, inversePermutation)]
  /\ UNCHANGED << mtc, message, attempt, sent, blockCall, padCall, earlier >>

\* generateColumnPermutation(key, round, N)
GenerateColumnPermutation ==
  /\ helperCall.fn = "none"
  /\ \E N \in 1..MaxN, k \in HashedKeys :
       helperCall' = [fn |-> "generateColumnPermutation",
                      args |-> << k[1], k[2], N, roundHash(k[1], k[2]) >>,
                      result |-> generateColumnPermutation(k[1], k[2], N),
                      undone |-> << >>]
  /\ UNCHANGED << mtc, message, attempt, sent, blockCall, padCall, earlier >>

\* the loop of generateColumnPermutation on a digest of any bytes
ShuffleColumns ==
  /\ helperCall.fn = "none"
  /\ \E N \in 1..MaxN, hash \in Hashes :
       helperCall' = [fn |-> "shuffleLoop", args |-> << << >>, 0, N, hash >>,
                      result |-> shuffleLoop(Iota(N), hash, N - 1), undone |-> << >>]
  /\ UNCHANGED << mtc, message, attempt, sent, blockCall, padCall, earlier >>

NextPermute ==
  \/ PermuteColumns
  \/ InversePermuteColumns
  \/ GenerateColumnPermutation
  \/ ShuffleColumns

SpecPermute == InitHelper /\ [][NextPermute]_vars

\* gfMul(a, b) for any two bytes
GfMul ==
  /\ helperCall.fn = "none"
  /\ \E a \in 0..255, b \in 0..255 :
       helperCall' = [fn |-> "gfMul", args |-> << a, b >>,
                      result |-> << gfMul(a, b) >>, undone |-> << >>]
  /\ UNCHANGED << mtc, message, attempt, sent, blockCall, padCall, earlier >>

NextGf ==
  \/ GfMul

SpecGf == InitHelper /\ [][NextGf]_vars

\* byte sequences: every byte once, none, and short ones
RotateData == { Iota(256), << >>, << 0 >>, << 255, 1, 128 >> }

\* keys of one byte with every shift, a multiple of 8 and the largest byte, and
\* keys of several bytes
RotateKeys ==
  { << k >> : k \in (0..8) \cup { 255 } } \cup { << 1, 2, 3, 4 >>, << 8, 255, 7, 16 >> }

\* round numbers below and above the length of a key
RotateRounds == 0..5

\* permuteBits(data, key, round)
PermuteBits ==
  /\ helperCall.fn = "none"
  /\ \E data \in RotateData, key \in RotateKeys, round \in RotateRounds :
       helperCall' = [fn |-> "permuteBits", args |-> << data, key, round >>,
                      result |-> permuteBits(data, key, round), undone |-> << >>]
  /\ UNCHANGED << mtc, message, attempt, sent, blockCall, padCall, earlier >>

\* inversePermuteBits(rotated, key, round) on what permuteBits returned
InversePermuteBits ==
  /\ helperCall.fn = "permuteBits"
  /\ helperCall' = [helperCall EXCEPT
                      !.fn = "inversePermuteBits",
                      !.undone = inversePermuteBits(helperCall.result, helperCall.args[2],
                                                    helperCall.args[3])]
  /\ UNCHANGED << mtc, message, attempt, sent, blockCall, padCall, earlier >>

NextRotate ==
  \/ PermuteBits
  \/ InversePermuteBits

SpecRotate == InitHelper /\ [][NextRotate]_vars

(***************************************************************************)
(* Properties of encrypt and decrypt                                       *)
(***************************************************************************)
\* the last decrypt call was handed exactly what the last encrypt call returned
DecryptsMessage == attempt.by # "none" /\ attempt.input = message.returned.value

\* the UTF-8 bytes of the last encrypted plaintext
PlainBytes == Utf8Encode(message.plaintext)

\* C1: round trip on one instance. When an instance decrypts what it returned
\* from encrypt, decrypt throws nothing and returns the plaintext: the returned
\* string has exactly the plaintext's bytes, and is the plaintext itself
\* whenever the plaintext is a well-formed string.
C1_RoundTrip ==
  (DecryptsMessage /\ attempt.by = message.by) =>
     /\ attempt.outcome.threw = ""
     /\ Utf8Encode(attempt.outcome.value) = PlainBytes
     /\ WellFormed(message.plaintext) => attempt.outcome.value = message.plaintext

\* a multi-block, block-aligned plaintext came back from the instance that
\* encrypted it, after more than one round
C1_Witness ==
  /\ DecryptsMessage /\ attempt.by = message.by
  /\ Len(PlainBytes) >= 2 * BlockSize /\ Len(PlainBytes) % BlockSize = 0
  /\ mtc[attempt.by].rounds >= 2
  /\ attempt.outcome = Return(message.plaintext)

\* the bytes the last decrypt call decoded from its argument
Decoded == HexDecode(attempt.input)

\* the decoded argument is an IV followed by whole blocks
LengthValid == Len(Decoded) >= BlockSize /\ (Len(Decoded) - BlockSize) % BlockSize = 0

\* C3: length validation. A decrypt argument that decodes to fewer than
\* blockSize bytes, or to an IV followed by a number of bytes that is no
\* multiple of blockSize, makes decrypt throw 'Invalid ciphertext length' (and
\* so none of the padding errors, which come after the blocks are decrypted).
C3_InvalidLength ==
  (attempt.by # "none" /\ ~LengthValid) =>
     attempt.outcome = Throw("Invalid ciphertext length")

\* a ciphertext cut by one byte, as in the test suite, was refused for its
\* length although it still holds the IV
C3_Witness ==
  /\ attempt.by # "none"
  /\ attempt.input = Slice(message.returned.value, 0, Len(message.returned.value) - 2)
  /\ Len(Decoded) > BlockSize /\ (Len(Decoded) - BlockSize) % BlockSize = BlockSize - 1
  /\ attempt.outcome = Throw("Invalid ciphertext length")

\* the bytes the CBC loop of the last decrypt call recovers, before unpadding
Recovered ==
  Flat(cbcDecrypt(mtc[attempt.by],
                  splitBlocks(SliceFrom(Decoded, BlockSize), BlockSize),
                  Slice(Decoded, 0, BlockSize)))

\* data ends in p bytes of value p, for some p in 1..blockSize
EndsInPadding(data, blockSize) ==
  /\ Len(data) > 0
  /\ LET p == data[Len(data)]
     IN  /\ p >= 1 /\ p <= blockSize /\ p <= Len(data)
         /\ \A k \in 1..p : data[Len(data) - k + 1] = p

\* data without the padding it ends in
WithoutPadding(data) == SubSeq(data, 1, Len(data) - data[Len(data)])

\* the decrypting instance has another key schedule than the encrypting one
OtherKey == mtc[attempt.by].keySchedule # mtc[message.by].keySchedule

C5_Witness ==
  /\ DecryptsMessage /\ OtherKey
  /\ Recovered[Len(Recovered)] >= 2 /\ Recovered[Len(Recovered)] <= BlockSize
  /\ attempt.outcome = Throw("Decryption failed: Invalid padding")

C6_GenericPaddingError ==
  attempt.by # "none" =>
     /\ attempt.outcome.threw \in
          { "", "Invalid ciphertext length", "Decryption failed: Invalid padding" }
     /\ attempt.outcome.threw # "" => attempt.outcome.value = << >>
     /\ (LengthValid /\ ~EndsInPadding(Recovered, BlockSize)) =>
          attempt.outcome = Throw("Decryption failed: Invalid padding")

\* unpad found a broken padding pattern and decrypt reported the generic error
C6_Witness ==
  /\ attempt.by # "none" /\ LengthValid
  /\ unpad(Recovered, BlockSize).threw = "Invalid padding pattern"
  /\ attempt.outcome = Throw("Decryption failed: Invalid padding")

\* unpad found an empty buffer, and a bad padding value
C6_WitnessEmpty ==
  /\ attempt.by # "none" /\ LengthValid
  /\ unpad(Recovered, BlockSize).threw = "Empty data buffer"
  /\ attempt.outcome = Throw("Decryption failed: Invalid padding")
C6_WitnessValue ==
  /\ attempt.by # "none" /\ LengthValid
  /\ unpad(Recovered, BlockSize).threw = "Invalid padding value"
  /\ attempt.outcome = Throw("Decryption failed: Invalid padding")

(***************************************************************************)
(* Properties of encryptBlock and decryptBlock                             *)
(***************************************************************************)
\* C2 as stated, for both classes: decryptBlock gives back every block that
\* encryptBlock of the same instance encrypted.
C2_BlockRoundTrip ==
  blockCall.stage = "decrypted" => blockCall.decrypted = blockCall.block

\* the part of C2 that holds: the class with the GF(2^8) mixing layer gives
\* every block back
C2_BlockRoundTripGf ==
  (blockCall.stage = "decrypted" /\ ~IsTs(mtc[blockCall.by])) =>
     blockCall.decrypted = blockCall.block

\* the class of src/MTCV3.ts gives no block of Blocks back
C2_TsLosesBlock ==
  (blockCall.stage = "decrypted" /\ IsTs(mtc[blockCall.by])) =>
     blockCall.decrypted # blockCall.block

(***************************************************************************)
(* Properties of the class of src/MTCV3.ts                                 *)
(***************************************************************************)
\* the last decrypt call was handed a returned value cut so that the bytes
\* after the IV are no whole number of blocks
TruncatedInput ==
  /\ message.by # "none"
  /\ \E k \in 1..(2 * BlockSize - 1) :
       attempt.input = Slice(message.returned.value, 0, Len(message.returned.value) - k)
  /\ (Len(Decoded) - BlockSize) % BlockSize # 0

\* C4 as stated: decrypt of src/MTCV3.ts throws 'Invalid ciphertext length' on
\* the empty string and on a truncated ciphertext.
C4_TsInvalidLength ==
  (attempt.by # "none" /\ IsTs(mtc[attempt.by])
     /\ (attempt.input = << >> \/ TruncatedInput)) =>
     attempt.outcome = Throw("Invalid ciphertext length")

\* what decrypt of src/MTCV3.ts does instead: the empty string is decrypted to
\* the empty string, and 'Invalid ciphertext length' is never thrown
C4_TsNeverInvalidLength ==
  (attempt.by # "none" /\ IsTs(mtc[attempt.by])) =>
     /\ attempt.outcome.threw # "Invalid ciphertext length"
     /\ attempt.input = << >> => attempt.outcome = Return(<< >>)

(***************************************************************************)
(* Properties of pad and unpad                                             *)
(***************************************************************************)
\* the number of bytes pad(D, S) is to append
PaddingLength == padCall.blockSize - (Len(padCall.data) % padCall.blockSize)

\* what C7 says about the length of the padded buffer and its prefix
PadShape ==
  /\ PaddingLength >= 1 /\ PaddingLength <= padCall.blockSize
  /\ Len(padCall.padded) = Len(padCall.data) + PaddingLength
  /\ SubSeq(padCall.padded, 1, Len(padCall.data)) = padCall.data
  /\ Len(padCall.padded) % padCall.blockSize = 0
  /\ Len(padCall.data) % padCall.blockSize = 0 =>
       Len(padCall.padded) = Len(padCall.data) + padCall.blockSize

\* C7 as stated: pad(D, S) appends p = S - (len(D) mod S) bytes, each holding
\* the value p.
C7_PadAppendsP ==
  padCall.stage # "none" =>
    /\ PadShape
    /\ \A k \in (Len(padCall.data) + 1)..Len(padCall.padded) :
         padCall.padded[k] = PaddingLength

\* C7, amended: pad(D, S) appends p = S - (len(D) mod S) bytes, each holding
\* the low eight bits of p, which is p itself whenever S <= 255; the result
\* keeps D as its prefix, its length is a multiple of S, and it is len(D) + S
\* when len(D) is a multiple of S.
C7_PadAppendsLowByte ==
  padCall.stage # "none" =>
    /\ PadShape
    /\ \A k \in (Len(padCall.data) + 1)..Len(padCall.padded) :
         /\ padCall.padded[k] = PaddingLength % 256
         /\ padCall.blockSize <= 255 => padCall.padded[k] = PaddingLength

\* aligned data got a whole block of padding of the cipher's block size
C7_Witness ==
  /\ padCall.stage = "padded" /\ padCall.blockSize = BlockSize
  /\ Len(padCall.data) = BlockSize
  /\ padCall.padded = padCall.data \o Repeat(BlockSize, BlockSize)

\* a padding length that does not fit a byte was written
C7_WitnessWide ==
  /\ padCall.stage = "padded" /\ PaddingLength = 300
  /\ padCall.padded[Len(padCall.padded)] = 44

\* C8 as stated: unpad(pad(D, S), S) returns D for every buffer D and every
\* block size S >= 1.
C8_PadRoundTrip ==
  padCall.stage = "unpadded" => padCall.unpadded = Return(padCall.data)

\* C8, amended: unpad(pad(D, S), S) returns D, without an error, for every
\* buffer D and every block size S from 1 to 255.
C8_PadRoundTripByte ==
  (padCall.stage = "unpadded" /\ padCall.blockSize <= 255) =>
     padCall.unpadded = Return(padCall.data)

\* the empty buffer came back from a whole block of 255 padding bytes
C8_Witness ==
  /\ padCall.stage = "unpadded" /\ padCall.blockSize = 255
  /\ padCall.data = << >> /\ Len(padCall.padded) = 255
  /\ padCall.unpadded = Return(<< >>)

\* with block size 256 the padding of the empty buffer is refused
C8_WitnessRefused ==
  /\ padCall.stage = "unpadded" /\ padCall.blockSize = 256
  /\ padCall.data = << >>
  /\ padCall.unpadded = Throw("Invalid padding value")

\* with a larger block size unpad returns something else than the data
C8_WitnessWrongData ==
  /\ padCall.stage = "unpadded" /\ padCall.blockSize > 256
  /\ padCall.unpadded.threw = "" /\ padCall.unpadded.value # padCall.data

(***************************************************************************)
(* Properties of the value encrypt returns                                 *)
(***************************************************************************)
\* block k (from 0) of a buffer cut into blocks of BlockSize bytes
BlockAt(buf, k) == Slice(buf, k * BlockSize, (k + 1) * BlockSize)

\* encryptBlock of the class of the instance
EncryptBlockOf(self, block) ==
  IF IsTs(self) THEN encryptBlockTs(self, block) ELSE encryptBlock(self, block)

\* C9: the value encrypt returns is the hex form of the instance IV followed by
\* n = floor(L / B) + 1 cipher blocks of B bytes, L the plaintext's length in
\* bytes, so it has 2 * B * (n + 1) characters; cipher block k is the
\* encryption of padded plaintext block k xored with the block before it in
\* the output.
C9_WireFormat ==
  (message.by # "none" /\ message.returned.threw = "") =>
     LET self == mtc[message.by]
         data == Utf8Encode(message.plaintext)
         n == (Len(data) \div BlockSize) + 1
         padded == pad(data, BlockSize)
         wire == message.returned.value
         out == HexDecode(wire)
     IN  /\ Len(wire) = 2 * BlockSize * (n + 1)
         /\ wire = HexEncode(out)
         /\ Len(out) = BlockSize * (n + 1)
         /\ BlockAt(out, 0) = self.iv
         /\ \A k \in 1..n :
              BlockAt(out, k) =
                EncryptBlockOf(self, xorBlock(BlockAt(padded, k - 1), BlockAt(out, k - 1)))

\* a plaintext of exactly one block came out as the IV and two cipher blocks
C9_Witness ==
  /\ message.by # "none" /\ message.returned.threw = ""
  /\ Len(Utf8Encode(message.plaintext)) = BlockSize
  /\ Len(message.returned.value) = 2 * BlockSize * 3

\* the same from the class of src/MTCV3.ts
C9_WitnessTs ==
  /\ message.by # "none" /\ IsTs(mtc[message.by])
  /\ Len(Utf8Encode(message.plaintext)) = BlockSize
  /\ Len(message.returned.value) = 2 * BlockSize * 3

(***************************************************************************)
(* Properties of sequences of encrypt calls                                *)
(***************************************************************************)
\* C10 as stated: no two values returned by encrypt calls on one instance
\* carry the same IV.
C10_FreshIv ==
  \A j \in DOMAIN sent : \A k \in DOMAIN sent :
     (j < k /\ sent[j].by = sent[k].by) => sent[j].iv # sent[k].iv

\* what the classes do: every value an instance returns carries the IV drawn
\* in its constructor
C10_ConstructorIv ==
  \A k \in DOMAIN sent : sent[k].iv = mtc[sent[k].by].iv

\* one instance has sent as many messages as it may
C10_Reused ==
  /\ Len(sent) = MaxMessages
  /\ \A k \in DOMAIN sent : sent[k].by = "A" /\ sent[k].iv = mtc["A"].iv

(***************************************************************************)
(* Properties of the instance state                                        *)
(***************************************************************************)
\* keySchedule of an instance holds `rounds` sub-keys of matrixSize bytes,
\* sub-key r being bytes [r * matrixSize, (r + 1) * matrixSize) of the key
\* material derived from the instance's password and salt
KeyScheduleShape(self) ==
  /\ Len(self.keySchedule) = self.rounds
  /\ \E c \in Credentials :
       LET keyMaterial == deriveKey(c[1], c[2], 100000, self.rounds * self.matrixSize)
       IN  /\ Len(keyMaterial) = self.rounds * self.matrixSize
           /\ \A r \in 0..(self.rounds - 1) :
                /\ Len(self.keySchedule[r + 1]) = self.matrixSize
                /\ \A b \in 0..(self.matrixSize - 1) :
                     self.keySchedule[r + 1][b + 1] = keyMaterial[r * self.matrixSize + b + 1]

\* C11: in every state reached by encrypt and decrypt calls of the class of
\* src/MTCV3.ts, each instance's keySchedule has the shape the constructor gave
\* it, and no call changes keySchedule, rounds, matrixSize or iv.
C11_Immutable ==
  /\ [](\A n \in Names : KeyScheduleShape(mtc[n]))
  /\ [][\A n \in Names :
          /\ mtc'[n].keySchedule = mtc[n].keySchedule
          /\ mtc'[n].rounds = mtc[n].rounds
          /\ mtc'[n].matrixSize = mtc[n].matrixSize
          /\ mtc'[n].iv = mtc[n].iv]_vars

\* an instance of src/MTCV3.ts has encrypted, and a decrypt call has thrown
C11_Witness ==
  /\ message.by # "none" /\ message.returned.threw = ""
  /\ attempt.by # "none" /\ IsTs(mtc[attempt.by])
  /\ attempt.outcome.threw # ""
  /\ mtc[attempt.by].rounds = MaxRounds

(***************************************************************************)
(* Properties of instances with another matrixSize                         *)
(***************************************************************************)
\* C14 as stated: with a matrixSize other than 4, encrypt completes without
\* error and decrypt gives back what the same instance encrypted.
C14_OtherSizeRoundTrip ==
  (message.by # "none" /\ mtc[message.by].matrixSize # DefaultMatrixSize) =>
     /\ message.returned.threw = ""
     /\ DecryptsMessage => attempt.outcome = Return(Utf8Decode(PlainBytes))

\* what the class does: with fewer than four rows the mixing layer throws a
\* TypeError out of encrypt, and with more than four it leaves the rows after
\* the fourth zero, so the plaintext never comes back
C14_OtherSizeFails ==
  (message.by # "none" /\ mtc[message.by].matrixSize # DefaultMatrixSize) =>
     /\ mtc[message.by].matrixSize < 4 => message.returned = Throw("TypeError")
     /\ mtc[message.by].matrixSize > 4 =>
          /\ message.returned.threw = ""
          /\ DecryptsMessage => attempt.outcome # Return(Utf8Decode(PlainBytes))

(***************************************************************************)

(* Properties of the mixing layers                                         *)
(***************************************************************************)
\* the 4 x 4 circulant matrix with the given first row
Circulant(first) == [i \in 1..4 |-> [k \in 1..4 |-> first[((k - i) % 4) + 1]]]

RECURSIVE GfDot(_, _, _)
\* the XOR of gfMul(column[k], coefficients[k]) over k = n, n-1, ..., 1
GfDot(coefficients, column, n) ==
  IF n = 0 THEN 0
  ELSE BitXor(GfDot(coefficients, column, n - 1), gfMul(column[n], coefficients[n]))

\* every column of `mixed` is the product over GF(2^8) of the circulant matrix
\* with the given first row and the same column of `matrix`
GfColumnsTimes(first, matrix, mixed) ==
  \A i \in 1..4 : \A c \in 1..4 :
     mixed[i][c] = GfDot(Circulant(first)[i], Column(matrix, c - 1), 4)

\* C12: mixMatrix multiplies each column by the circulant matrix of first row
\* [2,3,1,1], inverseMixMatrix by the one of first row [14,11,13,9], and
\* inverseMixMatrix(mixMatrix(M)) = M for every 4 x 4 byte matrix M.
C12_GfMixRoundTrip ==
  /\ helperCall.fn \in { "mixMatrix", "inverseMixMatrix" } =>
       GfColumnsTimes(<< 2, 3, 1, 1 >>, helperCall.args[1], helperCall.result)
  /\ helperCall.fn = "inverseMixMatrix" =>
       /\ GfColumnsTimes(<< 14, 11, 13, 9 >>, helperCall.result, helperCall.undone)
       /\ helperCall.undone = helperCall.args[1]

\* the matrix of the mixing test came back, and mixing had changed it
C12_Witness ==
  /\ helperCall.fn = "inverseMixMatrix"
  /\ helperCall.args[1] = TestMatrix
  /\ helperCall.result # TestMatrix
  /\ helperCall.undone = TestMatrix

\* the 4 x 4 identity matrix
Identity4 == [i \in 1..4 |-> [j \in 1..4 |-> IF i = j THEN 1 ELSE 0]]

\* C13 as stated: with the matrices of src/MTCV3.ts,
\* inverseMixMatrix(mixMatrix(M, MIXING_MATRIX), INVERSE_MIXING_MATRIX) = M for
\* every 4 x 4 byte matrix M, INVERSE_MIXING_MATRIX * MIXING_MATRIX being the
\* identity modulo 256.
C13_Mod256MixRoundTrip ==
  /\ helperCall.fn = "inverseMixMatrixTs" => helperCall.undone = helperCall.args[1]
  /\ helperCall.fn = "mixMatrixTs" =>
       mixMatrixMod256(MIXING_MATRIX, INVERSE_MIXING_MATRIX) = Identity4

\* what the matrices of src/MTCV3.ts do to a matrix: the two layers together
\* multiply it by INVERSE_MIXING_MATRIX * MIXING_MATRIX, which is not the
\* identity modulo 256
C13_Mod256Product ==
  /\ mixMatrixMod256(MIXING_MATRIX, INVERSE_MIXING_MATRIX) # Identity4
  /\ helperCall.fn = "inverseMixMatrixTs" =>
       helperCall.undone =
         mixMatrixMod256(helperCall.args[1],
                         mixMatrixMod256(MIXING_MATRIX, INVERSE_MIXING_MATRIX))

(***************************************************************************)
(* Properties of the row shift                                             *)
(***************************************************************************)
\* row i of `to` is row i of `from` with the entry at column j taken from
\* column (j + sign * k) mod N, k = s[i] mod N (rows and columns from 0)
RowsTakenFrom(from, to, s, sign) ==
  LET N == Len(from)
  IN  /\ Len(to) = N
      /\ \A i \in 0..(N - 1) :
           /\ Len(to[i + 1]) = N
           /\ \A j \in 0..(N - 1) :
                to[i + 1][j + 1] = from[i + 1][((j + sign * (s[i + 1] % N)) % N) + 1]

\* C15 as stated: shiftRows rotates row i left by k = s[i] mod N
\* (result[i][j] = M[i][(j + k) mod N]) and inverseShiftRows rotates it right
\* by k (result[i][j] = M[i][(j - k) mod N]).
C15_ShiftsLeft ==
  /\ helperCall.fn \in { "shiftRows", "inverseShiftRows" } =>
       RowsTakenFrom(helperCall.args[1], helperCall.result, helperCall.args[2], 1)
  /\ helperCall.fn = "inverseShiftRows" =>
       RowsTakenFrom(helperCall.result, helperCall.undone, helperCall.args[2], -1)

\* C15, amended: shiftRows rotates row i RIGHT by k = s[i] mod N
\* (result[i][j] = M[i][(j - k) mod N]) and inverseShiftRows rotates it LEFT by
\* k (result[i][j] = M[i][(j + k) mod N]).
C15_ShiftsRight ==
  /\ helperCall.fn \in { "shiftRows", "inverseShiftRows" } =>
       RowsTakenFrom(helperCall.args[1], helperCall.result, helperCall.args[2], -1)
  /\ helperCall.fn = "inverseShiftRows" =>
       RowsTakenFrom(helperCall.result, helperCall.undone, helperCall.args[2], 1)

\* the second row of a 4 x 4 matrix, shifted by 1, has its last entry in front
C15_Witness ==
  /\ helperCall.fn = "shiftRows"
  /\ helperCall.args[1] = Numbered(4)
  /\ helperCall.args[2][2] = 1
  /\ helperCall.result[2] = << 7, 4, 5, 6 >>

\* C16: inverseShiftRows(shiftRows(M, s), s) = M for every N x N matrix M and
\* every vector s of byte-valued shift amounts, those that are 0 or multiples
\* of N included.
C16_ShiftRoundTrip ==
  helperCall.fn = "inverseShiftRows" => helperCall.undone = helperCall.args[1]

\* a matrix came back from shifts by 0, by N, by more than N and by less
C16_Witness ==
  /\ helperCall.fn = "inverseShiftRows"
  /\ helperCall.args[2] = << 0, 4, 255, 1 >>
  /\ helperCall.result = << << 0, 1, 2, 3 >>, << 4, 5, 6, 7 >>,
                            << 9, 10, 11, 8 >>, << 15, 12, 13, 14 >> >>
  /\ helperCall.undone = Numbered(4)

(***************************************************************************)
(* Properties of the column permutation                                    *)
(***************************************************************************)
\* every index 0..N-1 occurs in p, an array of N entries, exactly once
IsBijection(p, N) ==
  /\ Len(p) = N
  /\ \A v \in 0..(N - 1) : Cardinality({ i \in 1..N : p[i] = v }) = 1

\* column j of `to` is column cols[j] of `from`
ColumnsTakenFrom(from, to, cols) ==
  /\ Len(to) = Len(from)
  /\ \A i \in 1..Len(from) :
       /\ Len(to[i]) = Len(cols)
       /\ \A j \in 1..Len(cols) : to[i][j] = from[i][cols[j] + 1]

\* C17: column j of permuteColumns(M, p) is column p[j] of M; the array q that
\* generateInverseColumnPermutation(p) returns has q[p[i]] = i for all i; and
\* permuteColumns(permuteColumns(M, p), q) = M for every bijection p.
C17_PermuteRoundTrip ==
  /\ helperCall.fn \in { "permuteColumns", "generateInverseColumnPermutation" } =>
       ColumnsTakenFrom(helperCall.args[1], helperCall.result, helperCall.args[2])
  /\ helperCall.fn = "generateInverseColumnPermutation" =>
       LET p == helperCall.args[2]
           q == helperCall.args[3]
       IN  /\ Len(q) = Len(p)
           /\ \A i \in 1..Len(p) : q[p[i] + 1] = i - 1
           /\ helperCall.undone = helperCall.args[1]

\* the columns of a 4 x 4 matrix came back from a permutation that is not its
\* own inverse
C17_Witness ==
  /\ helperCall.fn = "generateInverseColumnPermutation"
  /\ helperCall.args[1] = Numbered(4)
  /\ helperCall.args[2] = << 1, 2, 3, 0 >>
  /\ helperCall.args[3] = << 3, 0, 1, 2 >>
  /\ helperCall.result[1] = << 1, 2, 3, 0 >>
  /\ helperCall.undone = Numbered(4)

RECURSIVE AfterSwaps(_, _, _)
\* the identity on {0..N-1} after the swaps of positions k and
\* hash[k mod 32] mod (k + 1), for k = N-1 down to i
AfterSwaps(hash, N, i) ==
  IF i > N - 1 THEN [x \in 1..N |-> x - 1]
  ELSE LET before == AfterSwaps(hash, N, i + 1)
           j == hash[(i % 32) + 1] % (i + 1)
       IN  [x \in 1..N |-> IF x = i + 1 THEN before[j + 1]
                           ELSE IF x = j + 1 THEN before[i + 1]
                           ELSE before[x]]

\* C18: for every 32-byte hash and every N >= 1, generateColumnPermutation
\* returns the identity on {0..N-1} after the swaps of positions i and
\* hash[i mod 32] mod (i+1) for i = N-1 down to 1, which is a bijection on
\* {0..N-1}; the hash is that of the sub-key followed by the round as a byte,
\* so the round counts modulo 256.
C18_PermutationGenerated ==
  helperCall.fn \in { "generateColumnPermutation", "shuffleLoop" } =>
    LET N == helperCall.args[3]
        hash == helperCall.args[4]
    IN  /\ Len(hash) = 32
        /\ IsBijection(helperCall.result, N)
        /\ helperCall.result = AfterSwaps(hash, N, 1)
        /\ helperCall.fn = "generateColumnPermutation" =>
             /\ hash = sha256(helperCall.args[1] \o << helperCall.args[2] % 256 >>)
             /\ helperCall.result =
                  generateColumnPermutation(helperCall.args[1], helperCall.args[2] % 256, N)

\* a permutation of four columns other than the identity was generated for a
\* round number above 255
C18_Witness ==
  /\ helperCall.fn = "generateColumnPermutation"
  /\ helperCall.args[2] >= 256 /\ helperCall.args[3] = 4
  /\ helperCall.result # Iota(4)

\* the loop made every swap with position 0
C18_WitnessLoop ==
  /\ helperCall.fn = "shuffleLoop" /\ helperCall.args[3] = 4
  /\ \A i \in 2..4 : helperCall.args[4][i] % i = 0
  /\ helperCall.result = << 1, 2, 3, 0 >>

(***************************************************************************)
(* Properties of gfMul                                                     *)
(***************************************************************************)
RECURSIVE PolyProduct(_, _, _)
\* the product of the polynomials a and b over GF(2), bit i of b at a time
PolyProduct(a, b, i) ==
  IF i > 7 THEN 0
  ELSE BitXor(IF (b \div Pow2(i)) % 2 = 1 THEN a * Pow2(i) ELSE 0, PolyProduct(a, b, i + 1))

RECURSIVE PolyReduce(_, _)
\* v modulo x^8 + x^4 + x^3 + x + 1 (0x11B), clearing the bits k, k-1, ..., 8
PolyReduce(v, k) ==
  IF k < 8 THEN v
  ELSE PolyReduce(IF (v \div Pow2(k)) % 2 = 1 THEN BitXor(v, 283 * Pow2(k - 8)) ELSE v, k - 1)

\* C19: for all bytes a and b, gfMul(a, b) is the product of a and b in GF(2^8)
\* modulo x^8 + x^4 + x^3 + x + 1, a byte, with gfMul(a, 1) = a,
\* gfMul(a, 0) = 0 and gfMul(a, b) = gfMul(b, a); all eight bits of b count.
C19_GfMulProduct ==
  helperCall.fn = "gfMul" =>
    LET a == helperCall.args[1]
        b == helperCall.args[2]
        p == helperCall.result[1]
    IN  /\ p \in 0..255
        /\ p = PolyReduce(PolyProduct(a, b, 0), 14)
        /\ b = 1 => p = a
        /\ b = 0 => p = 0
        /\ p = gfMul(b, a)
        /\ p = gfMulLoop(a, b, 0, 0)

\* a product that needs the eighth iteration and the reduction: 0x57 * 0x83 =
\* 0xC1
C19_Witness ==
  /\ helperCall.fn = "gfMul"
  /\ helperCall.args = << 87, 131 >>
  /\ helperCall.result = << 193 >>

(***************************************************************************)
(* Properties of the bit rotation                                          *)
(***************************************************************************)
\* the byte b with its eight bits rotated left by s places, 0 <= s < 8
RotatedByteLeft(b, s) == ((b * Pow2(s)) % 256) + (b \div Pow2(8 - s))

\* every byte of `to` is the byte of `from` at the same place rotated left by s
BytesRotatedLeft(from, to, s) ==
  /\ Len(to) = Len(from)
  /\ \A i \in 1..Len(from) : to[i] \in 0..255 /\ to[i] = RotatedByteLeft(from[i], s)

\* C20: permuteBits rotates every byte left by shift = key[round mod
\* key.length] mod 8 within eight bits, inversePermuteBits rotates right by the
\* same shift, the outputs are bytes, and inversePermuteBits(permuteBits(d, key,
\* r), key, r) = d, also when the shift is 0.
C20_BitRotation ==
  helperCall.fn \in { "permuteBits", "inversePermuteBits" } =>
    LET data == helperCall.args[1]
        key == helperCall.args[2]
        round == helperCall.args[3]
        shift == key[(round % Len(key)) + 1] % 8
    IN  /\ BytesRotatedLeft(data, helperCall.result, shift)
        /\ helperCall.fn = "inversePermuteBits" =>
             /\ BytesRotatedLeft(helperCall.result, helperCall.undone, (8 - shift) % 8)
             /\ helperCall.undone = data

\* every byte came back from a rotation by 3 places that had changed it
C20_Witness ==
  /\ helperCall.fn = "inversePermuteBits"
  /\ helperCall.args = << Iota(256), << 1, 2, 3, 4 >>, 2 >>
  /\ helperCall.result[2] = 8 /\ helperCall.result[130] = 12
  /\ helperCall.undone = Iota(256)

\* every byte came back from a rotation by 0 places
C20_WitnessZero ==
  /\ helperCall.fn = "inversePermuteBits"
  /\ helperCall.args = << Iota(256), << 8 >>, 1 >>
  /\ helperCall.result = Iota(256)
  /\ helperCall.undone = Iota(256)

(***************************************************************************)
(* The CBC loops: a message is encrypted, and the value returned, or that  *)
(* value with one block altered, is handed to decrypt twice                *)
(***************************************************************************)
\* the end of decrypt, from Buffer.concat(plaintextBlocks) on, with the blocks
\* the loop has pushed
decryptEnd(plaintextBlocks, blockSize) ==
  LET unpadded == unpad(Flat(plaintextBlocks), blockSize)
  IN  [plaintextBlocks |-> plaintextBlocks,
       outcome |-> IF unpadded.threw # ""
                   THEN Throw("Decryption failed: Invalid padding")
                   ELSE Return(Utf8Decode(unpadded.value))]

\* decrypt with the blocks its loop has pushed to plaintextBlocks (none when
\* decrypt throws before or in the loop)
decryptTraced(self, ciphertextHex) ==
  LET ciphertextWithIV == HexDecode(ciphertextHex)
      blockSize == self.matrixSize * self.matrixSize
      iv == Slice(ciphertextWithIV, 0, blockSize)
      ciphertext == SliceFrom(ciphertextWithIV, blockSize)
      blocks == splitBlocks(ciphertext, blockSize)
      none == << >>
  IN  IF Len(ciphertextWithIV) < blockSize
      THEN [plaintextBlocks |-> none, outcome |-> Throw("Invalid ciphertext length")]
      ELSE IF Len(ciphertext) % blockSize # 0
      THEN [plaintextBlocks |-> none, outcome |-> Throw("Invalid ciphertext length")]
      ELSE IF blocks # << >> /\ blockThrows(self)
      THEN [plaintextBlocks |-> none, outcome |-> Throw("TypeError")]
      ELSE decryptEnd(Eval(cbcDecrypt(self, blocks, iv)), blockSize)

\* the same for decrypt of src/MTCV3.ts
decryptEndTs(plaintextBlocks) ==
  LET unpadded == unpadTs(Flat(plaintextBlocks))
  IN  [plaintextBlocks |-> plaintextBlocks,
       outcome |-> IF unpadded.threw # "" THEN unpadded
                   ELSE Return(Utf8Decode(unpadded.value))]

decryptTracedTs(self, ciphertextHex) ==
  LET ciphertextWithIV == HexDecode(ciphertextHex)
      blockSize == self.matrixSize * self.matrixSize
      iv == Slice(ciphertextWithIV, 0, blockSize)
      ciphertext == SliceFrom(ciphertextWithIV, blockSize)
      blocks == splitBlocks(ciphertext, blockSize)
  IN  decryptEndTs(Eval(cbcDecryptTs(self, blocks, iv)))

\* the record of a decrypt call
Attempted(i, input, traced) ==
  [by |-> i, input |-> input, outcome |-> traced.outcome,
   plaintextBlocks |-> traced.plaintextBlocks]

\* a plaintext of less than one block and one of MaxBlocks full blocks
CbcPlaintexts == { TestText, Repeat(66, MaxBlocks * BlockSize) }

\* a mask of one bit and a mask that changes every byte of a block
Masks ==
  { [i \in 1..BlockSize |-> IF i = 1 THEN 1 ELSE 0],
    [i \in 1..BlockSize |-> (17 * i) % 256] }

\* the hex string w with the mask d xored into block k (from 0, the IV) of
\* the bytes it encodes
WithMask(w, k, d) ==
  LET buf == Eval(HexDecode(w))
      masked == Eval([j \in 1..Len(buf) |->
                  IF (j - 1) \div BlockSize = k
                  THEN BitXor(buf[j], d[((j - 1) % BlockSize) + 1])
                  ELSE buf[j]])
  IN  Eval(HexEncode(masked))

\* the value encrypt returned, that value with one block altered, and its
\* IV alone
CbcInputs(w) ==
  LET n == (Len(w) \div (2 * BlockSize)) - 1
  IN  { w, Slice(w, 0, 2 * BlockSize) }
        \cup { WithMask(w, k, d) : k \in 0..n, d \in Masks }

\* two instances of one class built with the same password, salt and rounds;
\* B holds the IV of A or another one
InitCbc ==
  /\ mtc \in { [n \in Names |->
                 MTCv3(Password, Salt, r, DefaultMatrixSize,
                       IF n = "A" THEN CHOOSE iv \in RandomIVs : TRUE ELSE ivB)] :
               r \in 1..MaxRounds, ivB \in RandomIVs }
        \cup { [n \in Names |->
                 MTCv3Ts(Password, Salt, r, DefaultMatrixSize,
                         IF n = "A" THEN CHOOSE iv \in RandomIVs : TRUE ELSE ivB)] :
               r \in 1..MaxRounds, ivB \in RandomIVs }
  /\ NoCalls

\* mtc[i].encrypt(plaintext), of either class
EncryptCbc ==
  /\ message.by = "none"
  /\ \E i \in Names, plaintext \in CbcPlaintexts :
       LET returned == IF IsTs(mtc[i]) THEN encryptTs(mtc[i], plaintext)
                       ELSE encrypt(mtc[i], plaintext)
       IN  /\ message' = [by |-> i, plaintext |-> plaintext, returned |-> returned]
           /\ sent' = Append(sent, [by |-> i, iv |-> IvOf(mtc[i], returned)])
  /\ UNCHANGED << mtc, attempt, blockCall, padCall, helperCall, earlier >>

\* mtc[i].decrypt(input), of either class, with the blocks its loop pushed;
\* the second call is on the instance of the first
DecryptCbc ==
  /\ message.by # "none"
  /\ earlier.by = "none"
  /\ \E i \in Names, input \in CbcInputs(message.returned.value) :
       /\ attempt.by # "none" => i = attempt.by
       /\ attempt' = Attempted(i, input,
                       IF IsTs(mtc[i]) THEN decryptTracedTs(mtc[i], input)
                       ELSE decryptTraced(mtc[i], input))
       /\ earlier' = attempt
  /\ UNCHANGED << mtc, message, sent, blockCall, padCall, helperCall >>

NextCbc ==
  \/ EncryptCbc
  \/ DecryptCbc

SpecCbc == InitCbc /\ [][NextCbc]_vars

\* decryptBlock of the class of the instance
DecryptBlockOf(self, block) ==
  IF IsTs(self) THEN decryptBlockTs(self, block) ELSE decryptBlock(self, block)

\* what decrypt of the class of the instance makes of the bytes its loop recovered
AfterUnpad(self, plaintext) ==
  IF IsTs(self)
  THEN LET unpadded == unpadTs(plaintext)
       IN  IF unpadded.threw # "" THEN unpadded ELSE Return(Utf8Decode(unpadded.value))
  ELSE LET unpadded == unpad(plaintext, BlockSize)
       IN  IF unpadded.threw # "" THEN Throw("Decryption failed: Invalid padding")
           ELSE Return(Utf8Decode(unpadded.value))

\* C21: encrypt and decrypt chain blocks as CBC does.  With C_0 the IV, cipher
\* block i of the value encrypt returns is encryptBlock(P_i XOR C_(i-1)), P_i
\* the padded plaintext's block i; decrypt recovers block i as
\* decryptBlock(C_i) XOR C_(i-1), where C_(i-1) is the block as it was
\* received (the IV read from the input for i = 1), never a decrypted or
\* xored block, and what decrypt returns is made of these recovered blocks.
C21_CbcChaining ==
  /\ message.by # "none" =>
       LET self == mtc[message.by]
           padded == pad(Utf8Encode(message.plaintext), BlockSize)
           out == HexDecode(message.returned.value)
           n == Len(padded) \div BlockSize
       IN  /\ Len(out) = BlockSize * (n + 1)
           /\ BlockAt(out, 0) = self.iv
           /\ \A i \in 1..n :
                BlockAt(out, i) =
                  EncryptBlockOf(self, xorBlock(BlockAt(padded, i - 1), BlockAt(out, i - 1)))
  /\ attempt.by # "none" =>
       LET self == mtc[attempt.by]
           received == HexDecode(attempt.input)
           n == (Len(received) \div BlockSize) - 1
       IN  /\ Len(attempt.plaintextBlocks) = n
           /\ \A i \in 1..n :
                attempt.plaintextBlocks[i] =
                  xorBlock(DecryptBlockOf(self, BlockAt(received, i)),
                           BlockAt(received, i - 1))
           /\ attempt.outcome = AfterUnpad(self, Flat(attempt.plaintextBlocks))

\* decrypt went through several blocks of a value whose second block had been
\* altered, so that the received and the recovered chaining values differ
C21_Witness ==
  /\ attempt.by # "none" /\ ~IsTs(mtc[attempt.by])
  /\ Len(attempt.plaintextBlocks) = MaxBlocks + 1
  /\ attempt.input = WithMask(message.returned.value, 1, CHOOSE d \in Masks : d[2] = 0)

\* the same in the class of src/MTCV3.ts
C21_WitnessTs ==
  /\ attempt.by # "none" /\ IsTs(mtc[attempt.by])
  /\ Len(attempt.plaintextBlocks) = MaxBlocks + 1
  /\ attempt.input = WithMask(message.returned.value, 1, CHOOSE d \in Masks : d[2] = 0)

(***************************************************************************)
(* unpad on buffers of any content                                         *)
(***************************************************************************)
\* 'Hello World\x05\x05\x05\x05' of the test suite
HelloWorldFives == << 72, 101, 108, 108, 111, 32, 87, 111, 114, 108, 100, 5, 5, 5, 5 >>

\* every buffer of up to MaxDataLen bytes with values up to MaxDataLen + 1,
\* the buffer of the test suite, and a buffer ending in a byte above 127
UnpadData ==
  UNION { [1..n -> 0..(MaxDataLen + 1)] : n \in 0..MaxDataLen }
    \cup { HelloWorldFives, Repeat(BlockSize, BlockSize), << 65, 200 >> }

UnpadBlockSizes == { 1, 2, 3, BlockSize }

\* unpad(data, blockSize)
UnpadBuffer ==
  /\ helperCall.fn = "none"
  /\ \E data \in UnpadData, blockSize \in UnpadBlockSizes :
       helperCall' = [fn |-> "unpad", args |-> << data, blockSize >>,
                      result |-> unpad(data, blockSize), undone |-> << >>]
  /\ UNCHANGED << mtc, message, attempt, sent, blockCall, padCall, earlier >>

SpecUnpad == InitHelper /\ [][UnpadBuffer]_vars

\* some of the last p bytes of data is not p (for 1 <= p <= len(data))
PatternBroken(data, p) ==
  \E i \in (Len(data) - p + 1)..Len(data) : data[i] # p

\* C22 as stated: unpad fails with 'Invalid padding pattern' whenever any of
\* the last p bytes differs from p, p being the last byte.
C22_PatternWhenever ==
  helperCall.fn = "unpad" =>
     LET data == helperCall.args[1]
         n == Len(data)
     IN  (n > 0 /\ data[n] >= 1 /\ data[n] <= n /\ PatternBroken(data, data[n]))
           => helperCall.result = Throw("Invalid padding pattern")

\* C22: with p the last byte of data, unpad(data, blockSize) fails with 'Empty
\* data buffer' when data is empty, else with 'Invalid padding value' when
\* p = 0, p > len(data) or p > blockSize, else with 'Invalid padding pattern'
\* when any of the last p bytes differs from p, and otherwise returns exactly
\* the first len(data) - p bytes; it succeeds if and only if none of these
\* failure conditions holds.
C22_UnpadValidation ==
  helperCall.fn = "unpad" =>
     LET data == helperCall.args[1]
         blockSize == helperCall.args[2]
         n == Len(data)
         p == data[n]
         result == helperCall.result
         empty == n = 0
         badValue == n > 0 /\ (p = 0 \/ p > n \/ p > blockSize)
         badPattern == n > 0 /\ ~badValue /\ PatternBroken(data, p)
     IN  /\ empty => result = Throw("Empty data buffer")
         /\ badValue => result = Throw("Invalid padding value")
         /\ badPattern => result = Throw("Invalid padding pattern")
         /\ (~empty /\ ~badValue /\ ~badPattern) =>
              result = Return([i \in 1..(n - p) |-> data[i]])
         /\ result.threw = "" <=> (~empty /\ ~badValue /\ ~badPattern)

\* the test suite's buffer was refused for its pattern
C22_Witness ==
  /\ helperCall.fn = "unpad"
  /\ helperCall.args = << HelloWorldFives, BlockSize >>
  /\ helperCall.result = Throw("Invalid padding pattern")

\* a last byte above the block size with other bytes before it: the value is
\* refused before the pattern is looked at
C22_WitnessValueFirst ==
  /\ helperCall.fn = "unpad"
  /\ LET data == helperCall.args[1]
     IN  /\ Len(data) > 0 /\ data[Len(data)] <= Len(data)
         /\ data[Len(data)] > helperCall.args[2]
         /\ PatternBroken(data, data[Len(data)])
  /\ helperCall.result = Throw("Invalid padding value")

(***************************************************************************)
(* The shortest value decrypt accepts                                      *)
(***************************************************************************)
\* C23: decrypt returns a plaintext only when the decoded input is an IV
\* followed by a positive number of full cipher blocks; an input that decodes
\* to exactly one block (the IV alone) is never accepted: decrypt throws.
C23_AtLeastOneBlock ==
  attempt.by # "none" =>
     /\ attempt.outcome.threw = "" =>
          /\ Len(Decoded) % BlockSize = 0
          /\ Len(Decoded) \div BlockSize >= 2
     /\ Len(Decoded) = BlockSize =>
          attempt.outcome = Throw("Decryption failed: Invalid padding")

\* the IV of the value encrypt returned was handed to decrypt on its own and
\* decrypt threw
C23_Witness ==
  /\ attempt.by # "none"
  /\ attempt.input = Slice(message.returned.value, 0, 2 * BlockSize)
  /\ Len(Decoded) = BlockSize
  /\ attempt.outcome.threw # ""

(***************************************************************************)
(* Decryption by another instance                                          *)
(***************************************************************************)
\* the value encrypt returned was handed to decrypt of the other instance,
\* which has the same key schedule
DecryptedByOther ==
  /\ DecryptsMessage
  /\ attempt.by # message.by
  /\ mtc[attempt.by].keySchedule = mtc[message.by].keySchedule

\* C24: decryption does not depend on the decrypting instance's own IV: a
\* value encrypt returned on one instance is decrypted to the original
\* plaintext by any other instance built with the same password, salt, rounds
\* and matrixSize, whatever IV that instance holds.
C24_AnyInstanceDecrypts ==
  DecryptedByOther => attempt.outcome = Return(message.plaintext)

\* the same for the class of src/unnamed/part_001 alone
C24_GfAnyInstanceDecrypts ==
  (DecryptedByOther /\ ~IsTs(mtc[attempt.by])) =>
     attempt.outcome = Return(message.plaintext)

\* in both classes decrypt gives what decrypt of the instance with the other
\* IV gives on the same input
C24_IvNotRead ==
  attempt.by # "none" =>
     \A n \in Names :
        attempt.outcome =
          IF IsTs(mtc[n]) THEN decryptTs(mtc[n], attempt.input)
          ELSE decrypt(mtc[n], attempt.input)

\* in the class of src/MTCV3.ts no instance gives the plaintext back, the one
\* that encrypted included
C24_TsNeverDecrypts ==
  (DecryptsMessage /\ IsTs(mtc[attempt.by])) =>
     attempt.outcome # Return(message.plaintext)

\* an instance of part_001 holding another IV gave the plaintext back
C24_WitnessGf ==
  /\ DecryptedByOther /\ ~IsTs(mtc[attempt.by])
  /\ mtc[attempt.by].iv # mtc[message.by].iv
  /\ attempt.outcome = Return(message.plaintext)

(***************************************************************************)
(* Two decrypt calls of one instance on values of equal length             *)
(***************************************************************************)
\* decrypt was called twice, on inputs that decode to the same number of bytes
TwoAttempts ==
  /\ earlier.by # "none"
  /\ attempt.by = earlier.by
  /\ Len(HexDecode(attempt.input)) = Len(HexDecode(earlier.input))

\* the buffers a and b are equal in every block but block k (from 0)
DifferOnlyIn(a, b, k) ==
  /\ Len(a) = Len(b)
  /\ \A j \in 0..((Len(a) \div BlockSize) - 1) : j # k => BlockAt(a, j) = BlockAt(b, j)

\* C25: the plaintext block decrypt recovers at position i, before unpad,
\* depends only on the received blocks i-1 and i (the IV for i = 1).  For two
\* inputs of equal length that differ only in block k (k = 0 the IV) the
\* recovered blocks other than k and k+1 are the same, and when only the IV
\* differs, by a mask d, the first recovered blocks differ by exactly d and
\* all later ones are the same.
C25_Locality ==
  TwoAttempts =>
     LET a == HexDecode(earlier.input)
         b == HexDecode(attempt.input)
         n == (Len(a) \div BlockSize) - 1
         P == earlier.plaintextBlocks
         Q == attempt.plaintextBlocks
     IN  /\ Len(P) = n /\ Len(Q) = n
         /\ \A i \in 1..n :
              (BlockAt(a, i - 1) = BlockAt(b, i - 1) /\ BlockAt(a, i) = BlockAt(b, i))
                => P[i] = Q[i]
         /\ \A k \in 0..n :
              DifferOnlyIn(a, b, k) =>
                 \A i \in 1..n : (i # k /\ i # k + 1) => P[i] = Q[i]
         /\ (DifferOnlyIn(a, b, 0) /\ n >= 1) =>
              /\ Q[1] = xorBlock(P[1], xorBlock(BlockAt(a, 0), BlockAt(b, 0)))
              /\ \A i \in 2..n : P[i] = Q[i]

\* the value encrypt returned and the same value with every byte of its IV
\* altered went through decrypt: the first recovered blocks differ, and there
\* are later blocks
C25_Witness ==
  /\ TwoAttempts
  /\ earlier.input = message.returned.value
  /\ attempt.input # earlier.input
  /\ DifferOnlyIn(HexDecode(earlier.input), HexDecode(attempt.input), 0)
  /\ Len(attempt.plaintextBlocks) = MaxBlocks + 1
  /\ \A j \in 1..BlockSize : attempt.plaintextBlocks[1][j] # earlier.plaintextBlocks[1][j]

\* two values differing in a block that is neither the IV nor the last one:
\* the recovered blocks at that position and at the next one differ
C25_WitnessMiddle ==
  /\ TwoAttempts
  /\ attempt.input # earlier.input
  /\ DifferOnlyIn(HexDecode(earlier.input), HexDecode(attempt.input), 1)
  /\ Len(attempt.plaintextBlocks) = MaxBlocks + 1
  /\ attempt.plaintextBlocks[1] # earlier.plaintextBlocks[1]
  /\ attempt.plaintextBlocks[2] # earlier.plaintextBlocks[2]

\* the same in the class of src/MTCV3.ts
C25_WitnessTs ==
  /\ TwoAttempts /\ IsTs(mtc[attempt.by])
  /\ attempt.input # earlier.input
  /\ DifferOnlyIn(HexDecode(earlier.input), HexDecode(attempt.input), 0)
  /\ Len(attempt.plaintextBlocks) = MaxBlocks + 1
  /\ attempt.plaintextBlocks[1] # earlier.plaintextBlocks[1]

====
